---- MODULE Spec2Model ----
(***************************************************************************)
(* Model of the knowledge engine of shannon-api: the hybrid VectorStore    *)
(* (SQLite chunk table + USearch ANN index, knowledge/vector_store.rs) and *)
(* the RAGService orchestration on top of it (knowledge/rag.rs).           *)
(*                                                                         *)
(* Numbers: f32 cosine values are kept exact by drawing embeddings from a  *)
(* set of integer vectors of Euclidean norm 5, so that                     *)
(* cos(a, b) = Dot(a, b) / 25 and every distance and score is an integer   *)
(* number of 25ths (ScoreScale); the one vector of another norm, the       *)
(* [0.9, 0.1, 0.0] of test_add_and_search, has its cosines cut down to     *)
(* whole 25ths.                                                            *)
(***************************************************************************)
EXTENDS Integers, Sequences, FiniteSets, TLC

-----------------------------------------------------------------------------
(* Bounds of the exploration *)

MaxRows == 3
MaxChunks == 2
MaxBatch == 2
MaxLimit == 2
MaxRuns == 2
MaxKbList == 2
MaxPromptRows == 1
MaxTokens == 5
MaxChunkSize == 3
MaxParagraphs == 2
MaxSentences == 2
MaxChars == 5

(* Program constants *)

Dimension == 3
TestTokens == 10
DefaultChunkSize == 768
DefaultOverlapPercent == 15
DefaultMinChunkSize == 256
DefaultMaxChunkSize == 1024
DefaultParentChunkSize == 2048
DefaultChildChunkSize == 512
DefaultMaxDepth == 3
ScoreScale == 5 * 5

-----------------------------------------------------------------------------
(* Input domains *)

KBs == {"kb1", "kb2"}
Procs == {1, 2}
Positions == {0, 1}
Limits == 0..MaxLimit
Queries == {"What is X?", "test query"}

\* Vectors of dimension 3 and norm 5; <<>> is the empty embedding.
Vecs == {v \in {<<5, 0, 0>>, <<0, 5, 0>>, <<3, 4, 0>>} : Len(v) = Dimension}
ChunkVecs == {<<5, 0, 0>>, <<0, 5, 0>>}
NoEmbedding == <<>>
Embeddings == ChunkVecs \cup {NoEmbedding}

\* A document as the chunker sees it: its id, its knowledge base and the
\* token counts of the pieces its chunking strategy cuts it into.
DocumentIds == {"doc1", "doc2"}
DocumentKb(d) == IF d = "doc1" THEN "kb1" ELSE "kb2"
PieceSeqs == UNION {[1..n -> {TestTokens}] : n \in 0..MaxChunks}
Documents == {[id |-> d, knowledge_base_id |-> DocumentKb(d), content |-> ps] :
                d \in DocumentIds, ps \in PieceSeqs}

Min(a, b) == IF a < b THEN a ELSE b

-----------------------------------------------------------------------------
(* Chunk records *)

\* chunking::create_chunk: a fresh uuid, the document's ids, no embedding.
create_chunk(document, uuid, tokens, position) ==
    [id |-> <<"uuid", uuid>>,
     document_id |-> document.id,
     knowledge_base_id |-> document.knowledge_base_id,
     content |-> <<document.id, position>>,
     embedding |-> NoEmbedding,
     tokens |-> tokens,
     position |-> position]

\* create_test_chunk of the store's tests: one document, 10 tokens, and the
\* id "chunk_{position}", the same in every knowledge base.
InputChunk(kb_id, position, embedding) ==
    [id |-> <<"chunk", position>>,
     document_id |-> "doc1",
     knowledge_base_id |-> kb_id,
     content |-> <<"Test content", position>>,
     embedding |-> embedding,
     tokens |-> TestTokens,
     position |-> position]

TestChunks == {InputChunk(kb, pos, e) : kb \in KBs, pos \in Positions, e \in Embeddings}
\* Batches as in test_batch_add: chunks of one knowledge base.
TestBatches == {b \in UNION {[1..n -> TestChunks] : n \in 0..MaxBatch} :
                    \A i \in 1..Len(b) : b[i].knowledge_base_id = b[1].knowledge_base_id
                                          /\ b[i].embedding \in {<<5, 0, 0>>, NoEmbedding}}

\* The columns of the chunks table (the embedding is not a column).
RowOf(chunk) ==
    [id |-> chunk.id,
     document_id |-> chunk.document_id,
     knowledge_base_id |-> chunk.knowledge_base_id,
     content |-> chunk.content,
     tokens |-> chunk.tokens,
     position |-> chunk.position]

\* The row mapper of search / get_chunks_by_kb: embedding: vec![].
ChunkOfRow(row) ==
    [id |-> row.id,
     document_id |-> row.document_id,
     knowledge_base_id |-> row.knowledge_base_id,
     content |-> row.content,
     embedding |-> NoEmbedding,
     tokens |-> row.tokens,
     position |-> row.position]

-----------------------------------------------------------------------------
(* The two stores *)

\* INSERT INTO chunks: fails on a PRIMARY KEY conflict or a database error.
InsertRow(tbl, chunk, dbFault) ==
    IF dbFault \/ (\E i \in 1..Len(tbl) : tbl[i].id = chunk.id)
    THEN [ok |-> FALSE, table |-> tbl]
    ELSE [ok |-> TRUE, table |-> Append(tbl, RowOf(chunk))]

\* index.add(key, vector) of an index built with multi: false: a key that is
\* already present is refused; any add can fail (capacity, allocation).
IndexAdd(idx, key, vector, annFault) ==
    IF annFault \/ key \in DOMAIN idx
    THEN [ok |-> FALSE, index |-> idx]
    ELSE [ok |-> TRUE, index |-> (key :> vector) @@ idx]

Dot(a, b) == a[1] * b[1] + a[2] * b[2] + a[3] * b[3]

\* MetricKind::Cos, 1 - cos(a, b), in 25ths: exact on vectors of norm 5, the
\* cosine cut down to whole 25ths on the others (no component is negative).
CosineDistance(a, b) ==
    IF Dot(a, a) = ScoreScale /\ Dot(b, b) = ScoreScale
    THEN ScoreScale - Dot(a, b)
    ELSE LET squared == ScoreScale * ScoreScale * Dot(a, b) * Dot(a, b)
             norms == Dot(a, a) * Dot(b, b)
         IN ScoreScale
              - (CHOOSE c \in 0..ScoreScale :
                    /\ c * c * norms <= squared
                    /\ c < ScoreScale => (c + 1) * (c + 1) * norms > squared)

\* index.search(query, limit): the keys of the min(limit, size) nearest
\* vectors, nearest first; keys at equal distance come in either order.
AnnRankings(idx, query, limit) ==
    LET n == Min(limit, Cardinality(DOMAIN idx))
        d(k) == CosineDistance(query, idx[k])
    IN {s \in [1..n -> DOMAIN idx] :
            /\ \A i, j \in 1..n : i < j => s[i] # s[j] /\ d(s[i]) <= d(s[j])
            /\ \A k \in DOMAIN idx : (\A i \in 1..n : s[i] # k) =>
                                        \A i \in 1..n : d(s[i]) <= d(k)}

\* Variant of query_row: the knowledge base is left out of the WHERE clause.
query_row_any_kb(tbl, kb, position, dbFault) ==
    LET hits == {i \in 1..Len(tbl) : tbl[i].position = position}
    IN IF dbFault \/ hits = {} THEN 0 ELSE CHOOSE i \in hits : \A j \in hits : i <= j

\* SELECT ... WHERE knowledge_base_id = ?1 AND position = ?2, read with
\* query_row: the first matching row in rowid order; 0 stands for every Err,
\* that of no matching row and that of a SELECT that fails (dbFault: the
\* database is locked, a column does not parse).
query_row(tbl, kb, position, dbFault) ==
    LET hits == {i \in 1..Len(tbl) :
                    tbl[i].knowledge_base_id = kb /\ tbl[i].position = position}
    IN IF dbFault \/ hits = {} THEN 0 ELSE CHOOSE i \in hits : \A j \in hits : i <= j

-----------------------------------------------------------------------------
(* VectorStore operations *)

\* VectorStore::add_chunk: the row is inserted first, outside any
\* transaction, then the vector; fault names the call that fails.
add_chunk(tbl, idx, chunk, fault) ==
    LET ins == InsertRow(tbl, chunk, fault = "insert")
    IN IF ~ins.ok THEN [ok |-> FALSE, table |-> tbl, index |-> idx]
       ELSE IF chunk.embedding = NoEmbedding
            THEN [ok |-> TRUE, table |-> ins.table, index |-> idx]
            ELSE LET add == IndexAdd(idx, chunk.position, chunk.embedding, fault = "index")
                 IN [ok |-> add.ok, table |-> ins.table, index |-> add.index]

\* The for loop of add_chunks_batch from chunk i on, inside the transaction:
\* stops at the first failing call (the ? operator).
RECURSIVE BatchLoop(_, _, _, _, _)
BatchLoop(tbl, idx, chunks, i, fault) ==
    IF i > Len(chunks) THEN [ok |-> TRUE, table |-> tbl, index |-> idx]
    ELSE LET chunk == chunks[i]
             ins == InsertRow(tbl, chunk, fault.at = i /\ fault.op = "insert")
         IN IF ~ins.ok THEN [ok |-> FALSE, table |-> tbl, index |-> idx]
            ELSE IF chunk.embedding = NoEmbedding
                 THEN BatchLoop(ins.table, idx, chunks, i + 1, fault)
                 ELSE LET add == IndexAdd(idx, chunk.position, chunk.embedding,
                                          fault.at = i /\ fault.op = "index")
                      IN IF ~add.ok
                         THEN [ok |-> FALSE, table |-> ins.table, index |-> idx]
                         ELSE BatchLoop(ins.table, add.index, chunks, i + 1, fault)

\* Variant of Rollback: the rows inserted before the failure stay (the
\* inserts run in autocommit mode).
Rollback_Keep(before, inTx) == inTx

\* What is left of the transaction's rows when the batch returns an error:
\* the Transaction is dropped with DropBehavior::Rollback.
Rollback(before, inTx) == before

\* VectorStore::add_chunks_batch: begin, loop, commit.
add_chunks_batch(tbl, idx, chunks, fault) ==
    IF fault.op = "begin" THEN [ok |-> FALSE, table |-> tbl, index |-> idx]
    ELSE LET run == BatchLoop(tbl, idx, chunks, 1, fault)
         IN IF run.ok /\ fault.op # "commit"
            THEN [ok |-> TRUE, table |-> run.table, index |-> run.index]
            ELSE [ok |-> FALSE, table |-> Rollback(tbl, run.table), index |-> run.index]

NoFault == [at |-> 0, op |-> "none"]
BatchFaults(n) == {NoFault, [at |-> 0, op |-> "begin"], [at |-> 0, op |-> "commit"]}
                    \cup {[at |-> i, op |-> o] : i \in 1..n, o \in {"insert", "index"}}

\* Variant of SearchLoop: each hit is put in front of the ones found so far.
RECURSIVE SearchLoop_Front(_, _, _, _, _, _, _)
SearchLoop_Front(tbl, idx, kb, query, keys, i, failing) ==
    IF i > Len(keys) THEN <<>>
    ELSE LET r == query_row(tbl, kb, keys[i], i \in failing)
             distance == CosineDistance(query, idx[keys[i]])
             rest == SearchLoop_Front(tbl, idx, kb, query, keys, i + 1, failing)
         IN IF r = 0 THEN rest
            ELSE rest \o <<[chunk |-> ChunkOfRow(tbl[r]), score |-> ScoreScale - distance]>>

\* The loop of VectorStore::search over the keys and distances of the ANN
\* result: a key whose lookup gives no row (none in the knowledge base, or
\* the SELECT failed: failing holds the passes where it does) is skipped
\* (if let Ok(chunk)), the others get score = 1 - distance.
RECURSIVE SearchLoop(_, _, _, _, _, _, _)
SearchLoop(tbl, idx, kb, query, keys, i, failing) ==
    IF i > Len(keys) THEN <<>>
    ELSE LET r == query_row(tbl, kb, keys[i], i \in failing)
             distance == CosineDistance(query, idx[keys[i]])
             rest == SearchLoop(tbl, idx, kb, query, keys, i + 1, failing)
         IN IF r = 0 THEN rest
            ELSE <<[chunk |-> ChunkOfRow(tbl[r]), score |-> ScoreScale - distance]>> \o rest

\* VectorStore::search for one ranking returned by the index.
search(tbl, idx, kb, query, keys, failing) ==
    SearchLoop(tbl, idx, kb, query, keys, 1, failing)

\* ORDER BY position over rows in rowid order (insertion keeps ties in order).
RECURSIVE OrderByPosition(_)
OrderByPosition(rows) ==
    IF rows = <<>> THEN <<>>
    ELSE LET last == rows[Len(rows)]
             init == OrderByPosition(SubSeq(rows, 1, Len(rows) - 1))
             k == Cardinality({i \in 1..Len(init) : init[i].position <= last.position})
         IN SubSeq(init, 1, k) \o <<last>> \o SubSeq(init, k + 1, Len(init))

\* VectorStore::get_chunks_by_kb
get_chunks_by_kb(tbl, kb) ==
    LET rows == OrderByPosition(SelectSeq(tbl, LAMBDA r : r.knowledge_base_id = kb))
    IN [i \in 1..Len(rows) |-> ChunkOfRow(rows[i])]

\* Variant of delete_chunks_by_kb: only the first row of the knowledge base
\* is deleted.
delete_first_chunk_of_kb(tbl, kb) ==
    LET hits == {i \in 1..Len(tbl) : tbl[i].knowledge_base_id = kb}
    IN IF hits = {} THEN tbl
       ELSE LET k == CHOOSE i \in hits : \A j \in hits : i <= j
            IN SubSeq(tbl, 1, k - 1) \o SubSeq(tbl, k + 1, Len(tbl))

\* Variant of delete_chunks_by_kb: the WHERE clause is missing.
delete_all_chunks(tbl, kb) == <<>>

\* VectorStore::delete_chunks_by_kb: DELETE FROM chunks WHERE knowledge_base_id = ?1
delete_chunks_by_kb(tbl, kb) == SelectSeq(tbl, LAMBDA r : r.knowledge_base_id # kb)

-----------------------------------------------------------------------------
(* RAGService: pure parts *)

\* The zip of process_document step 3: the i-th chunk gets the i-th vector;
\* zip stops at the shorter of the two, the other chunks keep vec![].
AttachEmbeddings(chunks, vectors) ==
    [i \in 1..Len(chunks) |->
        IF i <= Len(vectors) THEN [chunks[i] EXCEPT !.embedding = vectors[i]]
        ELSE chunks[i]]

\* process_document steps 1 and 2a: get_chunker, chunk, collect the texts.
\* fail names the call that returns an error; run numbers the uuids.
ChunkDocument(document, run, fail) ==
    IF fail # "none" THEN [ok |-> FALSE, chunks |-> <<>>]
    ELSE [ok |-> TRUE,
          chunks |-> [i \in 1..Len(document.content) |->
                        create_chunk(document, run * (MaxChunks + 1) + i,
                                     document.content[i], i - 1)]]

\* Variant of Contents: the texts are collected last chunk first.
Contents_Reversed(chunks) == [i \in 1..Len(chunks) |-> chunks[Len(chunks) + 1 - i].content]

\* The texts handed to embed_batch: chunks.iter().map(|c| c.content.as_str()).
Contents(chunks) == [i \in 1..Len(chunks) |-> chunks[i].content]

\* Variant of StoreEmbedded: an error of embed_batch is only reported after
\* the chunks have been stored without embeddings.
StoreEmbedded_AfterError(tbl, idx, chunks, er, fault) ==
    LET embedded == IF er.ok THEN AttachEmbeddings(chunks, er.vectors) ELSE chunks
        st == add_chunks_batch(tbl, idx, embedded, fault)
    IN [ok |-> er.ok /\ st.ok,
        error |-> IF ~er.ok THEN "embed" ELSE IF st.ok THEN "none" ELSE "store",
        stored |-> er.ok,
        table |-> st.table, index |-> st.index, chunks |-> embedded]

\* process_document from the return of embed_batch on: steps 2b, 3 and 4.
\* er is the provider's answer, fault the storage fault plan.
StoreEmbedded(tbl, idx, chunks, er, fault) ==
    IF ~er.ok
    THEN [ok |-> FALSE, error |-> "embed", stored |-> FALSE,
          table |-> tbl, index |-> idx, chunks |-> chunks]
    ELSE LET embedded == AttachEmbeddings(chunks, er.vectors)
             st == add_chunks_batch(tbl, idx, embedded, fault)
         IN [ok |-> st.ok, error |-> IF st.ok THEN "none" ELSE "store", stored |-> TRUE,
             table |-> st.table, index |-> st.index,
             chunks |-> embedded]

\* Variant of SortByScoreDesc: a.score is compared with b.score (ascending).
RECURSIVE SortByScoreAsc(_)
SortByScoreAsc(results) ==
    IF results = <<>> THEN <<>>
    ELSE LET last == results[Len(results)]
             init == SortByScoreAsc(SubSeq(results, 1, Len(results) - 1))
             k == Cardinality({i \in 1..Len(init) : init[i].score <= last.score})
         IN SubSeq(init, 1, k) \o <<last>> \o SubSeq(init, k + 1, Len(init))

\* all_results.sort_by(|a, b| b.score.partial_cmp(&a.score)): stable, descending.
RECURSIVE SortByScoreDesc(_)
SortByScoreDesc(results) ==
    IF results = <<>> THEN <<>>
    ELSE LET last == results[Len(results)]
             init == SortByScoreDesc(SubSeq(results, 1, Len(results) - 1))
             k == Cardinality({i \in 1..Len(init) : init[i].score >= last.score})
         IN SubSeq(init, 1, k) \o <<last>> \o SubSeq(init, k + 1, Len(init))

\* all_results.truncate(limit)
Truncate(results, limit) == SubSeq(results, 1, Min(limit, Len(results)))

\* The for loop of RAGService::search from the i-th knowledge base id on:
\* keys is what the index returns for this query and limit (the same for
\* every knowledge base: the index does not change during the loop), sfault
\* the number of the search that fails (0: none), failing[i] the row lookups
\* that fail in the i-th search.
RECURSIVE SearchAll(_, _, _, _, _, _, _, _)
SearchAll(tbl, idx, qvec, kbs, keys, sfault, i, failing) ==
    IF i > Len(kbs) THEN [ok |-> TRUE, results |-> <<>>, searches |-> 0]
    ELSE IF sfault = i THEN [ok |-> FALSE, results |-> <<>>, searches |-> 1]
    ELSE LET here == search(tbl, idx, kbs[i], qvec, keys, failing[i])
             rest == SearchAll(tbl, idx, qvec, kbs, keys, sfault, i + 1, failing)
         IN [ok |-> rest.ok, results |-> here \o rest.results,
             searches |-> rest.searches + 1]

\* RAGService::search; er is the provider's answer to embed(query).
rag_search(tbl, idx, er, kbs, keys, sfault, limit, failing) ==
    IF ~er.ok THEN [ok |-> FALSE, cands |-> <<>>, result |-> <<>>, embeds |-> 1, searches |-> 0]
    ELSE LET all == SearchAll(tbl, idx, er.vector, kbs, keys, sfault, 1, failing)
         IN IF ~all.ok
            THEN [ok |-> FALSE, cands |-> <<>>, result |-> <<>>,
                  embeds |-> 1, searches |-> all.searches]
            ELSE [ok |-> TRUE, cands |-> all.results,
                  result |-> Truncate(SortByScoreDesc(all.results), limit),
                  embeds |-> 1, searches |-> all.searches]

\* A rendered prompt: wrapped = FALSE is the bare query string; wrapped = TRUE
\* is the "# Relevant Context ..." text with its numbered sources.
Plain(query) == [wrapped |-> FALSE, sources |-> <<>>, query |-> query]

\* {:.2} of a score: hundredths.
Relevance(score) == (score * 100) \div ScoreScale

FormatContext(results, query) ==
    [wrapped |-> TRUE,
     sources |-> [i \in 1..Len(results) |->
                    [source |-> i, relevance |-> Relevance(results[i].score),
                     content |-> results[i].chunk.content]],
     query |-> query]

\* Variant of augment_query: the search is made before the list of knowledge
\* bases is looked at.
augment_query_SearchFirst(query, kbs, sr) ==
    IF ~sr.ok
    THEN [ok |-> FALSE, text |-> Plain(""), embeds |-> sr.embeds, searches |-> sr.searches]
    ELSE [ok |-> TRUE,
          text |-> IF sr.result = <<>> THEN Plain(query)
                   ELSE FormatContext(sr.result, query),
          embeds |-> sr.embeds, searches |-> sr.searches]

\* RAGService::augment_query; sr is what self.search would return.
augment_query(query, kbs, sr) ==
    IF kbs = <<>> THEN [ok |-> TRUE, text |-> Plain(query), embeds |-> 0, searches |-> 0]
    ELSE IF ~sr.ok
         THEN [ok |-> FALSE, text |-> Plain(""), embeds |-> sr.embeds, searches |-> sr.searches]
         ELSE [ok |-> TRUE,
               text |-> IF sr.result = <<>> THEN Plain(query)
                        ELSE FormatContext(sr.result, query),
               embeds |-> sr.embeds, searches |-> sr.searches]

\* chunks.iter().map(|c| c.tokens).sum()
RECURSIVE SumOfTokens(_)
SumOfTokens(chunks) ==
    IF chunks = <<>> THEN 0 ELSE Head(chunks).tokens + SumOfTokens(Tail(chunks))

AvgTokens_RoundedUp(total_tokens, len) ==
    IF len # 0 THEN (total_tokens + len - 1) \div len ELSE 0

\* if !chunks.is_empty() { total_tokens / chunks.len() } else { 0 }
AvgTokens(total_tokens, len) ==
    IF len # 0 THEN total_tokens \div len ELSE 0

\* KnowledgeBaseStats
KnowledgeBaseStats(total_chunks, total_tokens, avg_tokens_per_chunk, num_documents) ==
    [total_chunks |-> total_chunks, total_tokens |-> total_tokens,
     avg_tokens_per_chunk |-> avg_tokens_per_chunk, num_documents |-> num_documents]
NoStats == KnowledgeBaseStats(0, 0, 0, 0)

\* RAGService::get_stats over the chunks get_chunks returns.
get_stats(tbl, kb) ==
    LET chunks == get_chunks_by_kb(tbl, kb)
        total_tokens == SumOfTokens(chunks)
        avg_tokens == AvgTokens(total_tokens, Len(chunks))
        unique_documents == {chunks[i].document_id : i \in 1..Len(chunks)}
    IN KnowledgeBaseStats(Len(chunks), total_tokens, avg_tokens,
                          Cardinality(unique_documents))

-----------------------------------------------------------------------------
(* State *)

VARIABLES
    table,   \* the chunks table, rows in rowid order
    index,   \* the ANN index: key (a chunk position) -> vector
    pc,      \* where each process_document call stands
    pd,      \* the locals of each process_document call and its call log
    runs,    \* process_document calls started so far
    ret,     \* the operation that completed last, its arguments and result
    ck       \* the chunking run under way: its input, its locals, its result

vars == <<table, index, pc, pd, runs, ret, ck>>

NoDocument == [id |-> "", knowledge_base_id |-> "", content |-> <<>>]
NoCall == [document |-> NoDocument, chunks |-> <<>>, vectors |-> <<>>,
           calls |-> <<>>, error |-> "none"]

NoRet == [op |-> "none", ok |-> TRUE, caller |-> 0,
          kb |-> "", nkbs |-> 0, rows |-> <<>>,
          query |-> "", qvec |-> NoEmbedding, limit |-> 0, found |-> 0, failing |-> {},
          cands |-> <<>>, result |-> <<>>,
          text |-> Plain(""), embeds |-> 0, searches |-> 0,
          stats |-> NoStats]

Done(op) == [NoRet EXCEPT !.op = op]

\* No chunker has been asked for.
NoRun == [strategy |-> "none", pc |-> "none"]

RowsOf(chunks) == [i \in 1..Len(chunks) |-> RowOf(chunks[i])]

\* VectorStore::new on a new path: an empty table and an empty index.
Init ==
    /\ table = <<>>
    /\ index = <<>>
    /\ pc = [p \in Procs |-> "idle"]
    /\ pd = [p \in Procs |-> NoCall]
    /\ runs = 0
    /\ ret = NoRet
    /\ ck = NoRun

\* What the provider can answer to embed_batch of n texts: an error, or any
\* number of vectors from 0 to n + 1 (the response's data array is returned
\* as it comes); consecutive vectors differ.
BatchVector(i) == IF i % 2 = 1 THEN <<5, 0, 0>> ELSE <<0, 5, 0>>
EmbedBatchAnswers(n) ==
    {[ok |-> FALSE, vectors |-> <<>>]}
      \cup {[ok |-> TRUE, vectors |-> [i \in 1..m |-> BatchVector(i)]] : m \in 0..(n + 1)}

\* What the provider can answer to embed(query).
QueryVecs == {<<5, 0, 0>>, <<3, 4, 0>>}
EmbedAnswers == {[ok |-> FALSE, vector |-> NoEmbedding]}
                  \cup {[ok |-> TRUE, vector |-> v] : v \in QueryVecs}

KbLists == UNION {[1..n -> KBs] : n \in 0..MaxKbList}

\* The rankings the index can return for the answer er of the provider.
RankingsFor(er, limit) ==
    IF er.ok THEN AnnRankings(index, er.vector, limit) ELSE {<<>>}

-----------------------------------------------------------------------------
(* Actions *)

\* VectorStore::add_chunk
AddChunk(chunk, fault) ==
    /\ Len(table) < MaxRows
    /\ LET r == add_chunk(table, index, chunk, fault)
       IN /\ table' = r.table
          /\ index' = r.index
          /\ ret' = [Done("add_chunk") EXCEPT !.ok = r.ok, !.rows = RowsOf(<<chunk>>)]
    /\ UNCHANGED <<pc, pd, runs, ck>>

\* VectorStore::add_chunks_batch called on its own
AddChunksBatch(chunks, fault) ==
    /\ Len(table) + Len(chunks) <= MaxRows
    /\ LET r == add_chunks_batch(table, index, chunks, fault)
       IN /\ table' = r.table
          /\ index' = r.index
          /\ ret' = [Done("add_chunks_batch") EXCEPT !.ok = r.ok, !.rows = RowsOf(chunks)]
    /\ UNCHANGED <<pc, pd, runs, ck>>

\* VectorStore::delete_chunks_by_kb / RAGService::delete_chunks
DeleteChunksByKb(kb, dbFault) ==
    /\ table' = IF dbFault THEN table ELSE delete_chunks_by_kb(table, kb)
    /\ ret' = [Done("delete_chunks_by_kb") EXCEPT !.ok = ~dbFault, !.kb = kb]
    /\ UNCHANGED <<index, pc, pd, runs, ck>>

\* VectorStore::new on the path of the store, which replaces the store in
\* use: CREATE TABLE IF NOT EXISTS keeps the rows, Index::new builds an empty
\* index (the index is never saved or loaded); dbFault: open or execute
\* returns an error and the store in use stays.
New(dbFault) ==
    /\ index' = IF dbFault THEN index ELSE <<>>
    /\ ret' = [Done("new") EXCEPT !.ok = ~dbFault]
    /\ UNCHANGED <<table, pc, pd, runs, ck>>

\* VectorStore::search
Search(kb, qvec, limit, keys, annFault, failing) ==
    /\ keys \in AnnRankings(index, qvec, limit)
    /\ ret' = [Done("search") EXCEPT
                 !.ok = ~annFault, !.kb = kb, !.qvec = qvec, !.limit = limit,
                 !.failing = IF annFault THEN {} ELSE failing,
                 !.result = IF annFault THEN <<>> ELSE search(table, index, kb, qvec, keys, failing)]
    /\ UNCHANGED <<table, index, pc, pd, runs, ck>>

\* RAGService::search; kb is the knowledge base searched when it is the
\* only one.
RagSearch(query, er, kbs, keys, sfault, limit, failing) ==
    /\ LET r == rag_search(table, index, er, kbs, keys, sfault, limit, failing)
       IN ret' = [Done("rag_search") EXCEPT
                    !.ok = r.ok, !.limit = limit,
                    !.kb = IF Len(kbs) = 1 THEN kbs[1] ELSE "",
                    !.cands = r.cands, !.result = r.result]
    /\ UNCHANGED <<table, index, pc, pd, runs, ck>>

\* RAGService::augment_query
AugmentQuery(query, er, kbs, keys, sfault, limit, failing) ==
    /\ LET sr == rag_search(table, index, er, kbs, keys, sfault, limit, failing)
           r == augment_query(query, kbs, sr)
       IN ret' = [Done("augment_query") EXCEPT
                    !.ok = r.ok, !.query = query, !.nkbs = Len(kbs),
                    !.found = IF kbs = <<>> THEN 0 ELSE Len(sr.result),
                    !.text = r.text, !.embeds = r.embeds, !.searches = r.searches]
    /\ UNCHANGED <<table, index, pc, pd, runs, ck>>

\* RAGService::process_document up to the await of embed_batch.
PdBegin(p, document, fail) ==
    /\ pc[p] \in {"idle", "done", "failed"}
    /\ runs < MaxRuns
    /\ runs' = runs + 1
    /\ LET r == ChunkDocument(document, runs, fail)
           log == IF fail = "get_chunker" THEN <<>>
                  ELSE IF fail = "chunk" THEN <<[fn |-> "chunk", texts |-> <<>>]>>
                  ELSE <<[fn |-> "chunk", texts |-> <<>>],
                         [fn |-> "embed_batch", texts |-> Contents(r.chunks)]>>
       IN /\ pc' = [pc EXCEPT ![p] = IF r.ok THEN "embedding" ELSE "failed"]
          /\ pd' = [pd EXCEPT ![p] = [document |-> document, chunks |-> r.chunks,
                                      vectors |-> <<>>, calls |-> log, error |-> fail]]
          /\ ret' = [Done("process_document_begin") EXCEPT !.ok = r.ok, !.caller = p]
    /\ UNCHANGED <<table, index, ck>>

\* RAGService::process_document from the answer of embed_batch to its return.
PdFinish(p, er, fault) ==
    /\ pc[p] = "embedding"
    /\ er.ok => Len(table) + Len(pd[p].chunks) <= MaxRows
    /\ LET r == StoreEmbedded(table, index, pd[p].chunks, er, fault)
       IN /\ table' = r.table
          /\ index' = r.index
          /\ pc' = [pc EXCEPT ![p] = IF r.ok THEN "done" ELSE "failed"]
          /\ pd' = [pd EXCEPT ![p].error = r.error,
                              ![p].chunks = r.chunks,
                              ![p].vectors = er.vectors,
                              ![p].calls = IF r.stored
                                           THEN Append(@, [fn |-> "add_chunks_batch", texts |-> <<>>])
                                           ELSE @]
          /\ ret' = [Done("process_document") EXCEPT
                       !.ok = r.ok, !.caller = p, !.rows = RowsOf(pd[p].chunks)]
    /\ UNCHANGED <<runs, ck>>

\* The passes of a search's loop in which the row lookup can fail, for one
\* search and for each search of a list of knowledge bases.
LookupFaults(keys) == SUBSET (1..Len(keys))
LookupFaultsOf(kbs, keys) == [1..Len(kbs) -> LookupFaults(keys)]

\* The call of add_chunk that fails, if any.
AddFaults == {"none", "insert", "index"}

AddChunkStep ==
    \E chunk \in TestChunks, fault \in AddFaults : AddChunk(chunk, fault)

AddChunksBatchStep ==
    \E chunks \in TestBatches : \E fault \in BatchFaults(Len(chunks)) :
        AddChunksBatch(chunks, fault)

DeleteStep == \E kb \in KBs, dbFault \in BOOLEAN : DeleteChunksByKb(kb, dbFault)

NewStep == \E dbFault \in BOOLEAN : New(dbFault)

SearchStep ==
    \E kb \in KBs, qvec \in Vecs, limit \in Limits, annFault \in BOOLEAN :
        \E keys \in AnnRankings(index, qvec, limit) : \E failing \in LookupFaults(keys) :
            Search(kb, qvec, limit, keys, annFault, failing)

RagSearchStep ==
    \E query \in {"What is X?"}, er \in EmbedAnswers, kbs \in KbLists, limit \in Limits :
        \E keys \in RankingsFor(er, limit), sfault \in 0..Len(kbs) :
            \E failing \in LookupFaultsOf(kbs, keys) :
                RagSearch(query, er, kbs, keys, sfault, limit, failing)

AugmentQueryStep ==
    \E query \in Queries, er \in EmbedAnswers, kbs \in KbLists, limit \in Limits :
        \E keys \in RankingsFor(er, limit), sfault \in 0..Len(kbs) :
            \E failing \in LookupFaultsOf(kbs, keys) :
                AugmentQuery(query, er, kbs, keys, sfault, limit, failing)

PdBeginStep ==
    \E p \in Procs, document \in Documents, fail \in {"none", "get_chunker", "chunk"} :
        PdBegin(p, document, fail)

PdFinishStep ==
    \E p \in Procs : \E er \in EmbedBatchAnswers(Len(pd[p].chunks)) :
        \E fault \in BatchFaults(Len(pd[p].chunks)) : PdFinish(p, er, fault)

\* The store used directly.
Next == AddChunkStep \/ AddChunksBatchStep \/ DeleteStep \/ SearchStep \/ NewStep
Spec == Init /\ [][Next]_vars

\* Two ingestions sharing one store, with deletions in between.
NextIngest == PdBeginStep \/ PdFinishStep \/ DeleteStep
SpecIngest == Init /\ [][NextIngest]_vars

\* Prompt augmentation over a store of at most MaxPromptRows chunks.
NextAugment ==
    \/ Len(table) < MaxPromptRows /\ AddChunkStep
    \/ DeleteStep
    \/ AugmentQueryStep
SpecAugment == Init /\ [][NextAugment]_vars

-----------------------------------------------------------------------------
(* The store filled with chunks whose text names their embedding *)

\* Three pairwise orthogonal vectors of norm 5 (test_batch_add has them with
\* norm 1).
OrthoVecs == {<<5, 0, 0>>, <<0, 5, 0>>, <<0, 0, 5>>}

\* The provider maps a text to one vector: TextOf(e) is a text whose
\* embedding is e, EmbeddingOf gives the vector back.
TextOf(embedding) == <<"text of", embedding>>
EmbeddingOf(content) == content[2]

\* A chunk of document_id in kb_id with the embedding of its own text.
EmbeddedChunk(kb_id, document_id, position, embedding) ==
    [id |-> <<kb_id, document_id, position>>,
     document_id |-> document_id,
     knowledge_base_id |-> kb_id,
     content |-> TextOf(embedding),
     embedding |-> embedding,
     tokens |-> TestTokens,
     position |-> position]

\* The chunks of test_add_and_search: knowledge base kb1, one document,
\* positions 0, 1 and 2, the third chunk of the test with its vector
\* [0.9, 0.1, 0.0] (ten times as long here, the cosine is the same); next to
\* them, the first chunk of a document of kb2.
ScenarioChunks == 3
ScenarioPositions == 0..(ScenarioChunks - 1)
Scenario5Chunks == {EmbeddedChunk("kb1", "doc1", pos, e) :
                      pos \in ScenarioPositions, e \in OrthoVecs}
                     \cup {EmbeddedChunk("kb1", "doc1", 2, <<9, 1, 0>>)}
                     \cup {EmbeddedChunk("kb2", "doc2", 0, <<5, 0, 0>>)}

AddScenarioChunkStep ==
    /\ Len(table) < ScenarioChunks
    /\ \E chunk \in Scenario5Chunks, fault \in AddFaults : AddChunk(chunk, fault)

SearchScenarioStep ==
    \E kb \in {"kb1"}, qvec \in OrthoVecs, limit \in Limits, annFault \in BOOLEAN :
        \E keys \in AnnRankings(index, qvec, limit) : \E failing \in LookupFaults(keys) :
            Search(kb, qvec, limit, keys, annFault, failing)

DeleteOtherStep == \E dbFault \in BOOLEAN : DeleteChunksByKb("kb2", dbFault)

\* Up to three chunks are held at a time, added one by one, while kb2 is
\* emptied and kb1 is searched in between; every call can fail.
NextScenario5 == AddScenarioChunkStep \/ DeleteOtherStep \/ SearchScenarioStep
SpecScenario5 == Init /\ [][NextScenario5]_vars

-----------------------------------------------------------------------------
(* Statistics of a knowledge base *)

\* Chunks of two documents per knowledge base, with token counts that do not
\* divide evenly.
TokenCounts == {3, TestTokens}
StatChunk(kb_id, document_id, position, tokens) ==
    [EmbeddedChunk(kb_id, document_id, position, <<5, 0, 0>>) EXCEPT !.tokens = tokens]
StatChunks == {StatChunk(kb, d, pos, n) :
                 kb \in KBs, d \in DocumentIds, pos \in Positions, n \in TokenCounts}

\* RAGService::get_stats; dbFault: get_chunks returns an error.
GetStats(kb, dbFault) ==
    /\ ret' = [Done("get_stats") EXCEPT
                 !.ok = ~dbFault, !.kb = kb,
                 !.stats = IF dbFault THEN NoStats ELSE get_stats(table, kb)]
    /\ UNCHANGED <<table, index, pc, pd, runs, ck>>

AddStatChunkStep == \E chunk \in StatChunks, fault \in AddFaults : AddChunk(chunk, fault)
GetStatsStep == \E kb \in KBs, dbFault \in BOOLEAN : GetStats(kb, dbFault)

\* Statistics asked for while chunks are added and knowledge bases emptied.
NextStats == AddStatChunkStep \/ DeleteStep \/ GetStatsStep
SpecStats == Init /\ [][NextStats]_vars

-----------------------------------------------------------------------------
(* Store calls that fail part-way *)

\* Chunks of one document per knowledge base and batches of them, as
\* process_document hands them over: chunks of one knowledge base.
DivergeChunks == {EmbeddedChunk(kb, "doc1", pos, e) :
                    kb \in KBs, pos \in Positions, e \in ChunkVecs}
DivergeBatches == {b \in UNION {[1..n -> DivergeChunks] : n \in 1..MaxBatch} :
                     \A i \in 1..Len(b) : b[i].knowledge_base_id = b[1].knowledge_base_id}

AddDivergeChunkStep ==
    \E chunk \in DivergeChunks, fault \in AddFaults :
        AddChunk(chunk, fault)
AddDivergeBatchStep ==
    \E chunks \in DivergeBatches : \E fault \in BatchFaults(Len(chunks)) :
        AddChunksBatch(chunks, fault)

\* Chunks and batches stored with every call that can fail failing.
NextDiverge == AddDivergeChunkStep \/ AddDivergeBatchStep
SpecDiverge == Init /\ [][NextDiverge]_vars

-----------------------------------------------------------------------------
(* Searches over chunks of several documents and knowledge bases *)

\* Every document's chunks are numbered from position 0 (create_chunk), so
\* chunks of two documents share positions; each document is in its own
\* knowledge base.
ScoreChunks == {EmbeddedChunk(DocumentKb(d), d, pos, e) :
                  d \in DocumentIds, pos \in Positions, e \in ChunkVecs}
ScoreBatches == {b \in UNION {[1..n -> ScoreChunks] : n \in 1..MaxBatch} :
                   \A i \in 1..Len(b) : /\ b[i].knowledge_base_id = b[1].knowledge_base_id
                                         /\ b[i].document_id = b[1].document_id
                                         /\ b[i].position = i - 1}

AddScoreChunkStep == \E chunk \in ScoreChunks, fault \in AddFaults : AddChunk(chunk, fault)
AddScoreBatchStep ==
    \E chunks \in ScoreBatches : \E fault \in BatchFaults(Len(chunks)) :
        AddChunksBatch(chunks, fault)
SearchScoreStep ==
    \E kb \in KBs, qvec \in ChunkVecs, limit \in Limits, annFault \in BOOLEAN :
        \E keys \in AnnRankings(index, qvec, limit) : \E failing \in LookupFaults(keys) :
            Search(kb, qvec, limit, keys, annFault, failing)

\* Chunks are added, knowledge bases emptied and searched.
NextScore == AddScoreChunkStep \/ AddScoreBatchStep \/ DeleteStep \/ SearchScoreStep
SpecScore == Init /\ [][NextScore]_vars

\* The chunks of two documents as process_document hands them to the store:
\* the chunk at position pos carries the provider's vector for the text
\* number pos + 1 of its document.
RagChunks == {EmbeddedChunk(DocumentKb(d), d, pos, BatchVector(pos + 1)) :
                d \in DocumentIds, pos \in Positions}
AddRagChunkStep == \E chunk \in RagChunks, fault \in AddFaults : AddChunk(chunk, fault)

\* Retrieval over a store filled chunk by chunk with the chunks of two
\* documents, each in its own knowledge base, and emptied.
NextRag == AddRagChunkStep \/ DeleteStep \/ RagSearchStep
SpecRag == Init /\ [][NextRag]_vars

-----------------------------------------------------------------------------
(* Searches of an emptied knowledge base *)

\* RAGService::search over a single knowledge base.
RagSearchOneStep ==
    \E er \in EmbedAnswers, kb \in KBs, limit \in Limits :
        \E keys \in RankingsFor(er, limit), sfault \in 0..1 :
            \E failing \in LookupFaultsOf(<<kb>>, keys) :
                RagSearch("What is X?", er, <<kb>>, keys, sfault, limit, failing)

\* Chunks are added and knowledge bases emptied, with searches of either
\* kind in between.
NextDeleted == AddChunkStep \/ DeleteStep \/ SearchStep \/ RagSearchOneStep \/ NewStep
SpecDeleted == Init /\ [][NextDeleted]_vars

-----------------------------------------------------------------------------
(* Tokenizer and chunking configuration *)

\* A text is a sequence of bytes, each written as a string: the letters "w"
\* and "s", the apostrophe "'", the two bytes "e1" "e2" of one accented
\* letter, and the markdown symbols "|", "fence" (three backticks) and "\n".
\* A token is the sequence of the bytes it stands for.
\*
\* The chunkers hold an Arc<dyn Tokenizer>; TiktokenTokenizer hands the work
\* to cl100k_base, whose vocabulary is data outside the repository. The
\* model's vocabulary has every byte as a token of its own and three merges,
\* and keeps the two things a caller of cl100k_base can observe beyond token
\* counts: a text is first cut into pieces by what surrounds a character
\* (the contraction 's is a piece only where its apostrophe does not
\* continue a run of punctuation), so the tokens of a slice of text are not
\* always a slice of the tokens of the text; and a character of several
\* bytes can be spread over several tokens, so a slice of tokens is not
\* always a text.

RECURSIVE Flatten(_)
Flatten(pieces) ==
    IF pieces = <<>> THEN <<>>
    ELSE IF Len(pieces) = 1 THEN pieces[1]
    ELSE LET mid == Len(pieces) \div 2
         IN Flatten(SubSeq(pieces, 1, mid))
              \o Flatten(SubSeq(pieces, mid + 1, Len(pieces)))

\* The tokens of text[lo..hi], lo being a place where a token starts: the
\* text is cut at the starts, by halves.
RECURSIVE CutAt(_, _, _, _)
CutAt(text, starts, lo, hi) ==
    IF lo > hi THEN <<>>
    ELSE LET mid == (lo + hi) \div 2 + 1
             near == {j \in (mid - 2)..(mid + 2) : j > lo /\ j <= hi /\ j \in starts}
         IN IF near = {} THEN <<SubSeq(text, lo, hi)>>
            ELSE LET cut == CHOOSE j \in near : TRUE
                 IN CutAt(text, starts, lo, cut - 1) \o CutAt(text, starts, cut, hi)

\* bpe.encode_with_special_tokens(text): the pieces, then the merges in rank
\* order, each from left to right: ' s (a contraction, where the apostrophe
\* starts a piece), s w, then sw s. A token is at most three bytes long.
encode(text) ==
    LET n == Len(text)
        Contraction(j) == /\ j >= 1 /\ j < n /\ text[j] = "'" /\ text[j + 1] = "s"
                          /\ (j = 1 \/ text[j - 1] \notin {"'", "|", "fence"})
        SW(j) == /\ j >= 1 /\ j < n /\ text[j] = "s" /\ text[j + 1] = "w"
                 /\ ~Contraction(j - 1)
        SWS(j) == SW(j) /\ j + 2 <= n /\ text[j + 2] = "s" /\ ~SW(j + 2)
        starts == {j \in 1..n : ~(Contraction(j - 1) \/ SW(j - 1) \/ SWS(j - 2))}
    IN CutAt(text, starts, 1, n)

\* bpe.decode(tokens): the bytes of the tokens, read as UTF-8; Err when they
\* are not a text, which is when a token slice ends or starts inside a
\* character. ok is FALSE for Err.
decode(tokens) ==
    LET bytes == Flatten(tokens)
        n == Len(bytes)
        utf8 == \A i \in 1..n :
                    /\ bytes[i] = "e1" => (i < n /\ bytes[i + 1] = "e2")
                    /\ bytes[i] = "e2" => (i > 1 /\ bytes[i - 1] = "e1")
    IN [ok |-> utf8, text |-> IF utf8 THEN bytes ELSE <<>>]

count(text) == Len(encode(text))

\* Texts: n times the letter w; n letters, an accented letter, m letters;
\* n letters, two apostrophes and a tail.
Words(n) == [i \in 1..n |-> "w"]
Accented(n, m) == Words(n) \o <<"e1", "e2">> \o Words(m)
Quoted(n, tail) == Words(n) \o <<"'", "'">> \o tail
AccentedTexts == {Accented(n, m) : n \in 0..(MaxTokens - 3), m \in 0..1}
QuotedTexts == {Quoted(n, tail) : n \in 0..(MaxTokens - 2),
                                  tail \in {<<"s">>, <<"s", "s">>, <<"s", "w", "s">>}}

\* Option<T>: None is <<>>, Some(v) is <<v>>.
None == <<>>
Some(v) == <<v>>
unwrap_or(o, d) == IF o = None THEN d ELSE o[1]

\* A chunk as a chunking strategy builds it (create_chunk); ids are drawn in
\* the order of creation within one run.
NewChunk(id, content, tokens, position, parent_chunk_id, metadata) ==
    [id |-> id, content |-> content, tokens |-> tokens, position |-> position,
     parent_chunk_id |-> parent_chunk_id, embedding |-> NoEmbedding,
     metadata |-> metadata]

storeVars == <<table, index, pc, pd, runs, ret>>

-----------------------------------------------------------------------------
(* FixedSizeChunker (chunking/fixed_size.rs) *)

\* q + rem / den rounded to the nearest integer, a tie to the even one: the
\* rounding of an f32 result to its 24-bit significand.
round_ties_even(q, rem, den) ==
    IF 2 * rem > den \/ (2 * rem = den /\ q % 2 = 1) THEN q + 1 ELSE q

\* (chunk_size as f32 * overlap_percent) as usize, line 31, overlap_percent
\* written as a whole number of hundredths. The f32 nearest to
\* overlap_percent / 100 is m / 2^s, m of 24 bits; chunk_size is odd * 2^t;
\* the product odd * m is held in two parts, high * 2^16 + low, rounded to
\* the 24 bits of M * 2^r, and M * 2^(r + t - s) is cut to an integer. The
\* cast saturates, so a product below 0 gives 0. (The odd part of chunk_size
\* is taken to be under 2^15.)
OverlapTokens(chunk_size, overlap_percent) ==
    IF overlap_percent <= 0 \/ chunk_size = 0 THEN 0
    ELSE LET need == (100 * 2^23 + overlap_percent - 1) \div overlap_percent
             s == CHOOSE e \in 0..30 : 2^e >= need /\ (e = 0 \/ 2^(e - 1) < need)
             m == round_ties_even((overlap_percent * 2^s) \div 100,
                                  (overlap_percent * 2^s) % 100, 100)
             t == CHOOSE e \in 0..30 :
                     chunk_size % 2^e = 0 /\ (chunk_size \div 2^e) % 2 = 1
             odd == chunk_size \div 2^t
             product == odd * (m % 2^16)
             high == odd * (m \div 2^16) + product \div 2^16
             low == product % 2^16
             r == CHOOSE e \in 0..16 : high < 2^(8 + e) /\ (e = 0 \/ high >= 2^(7 + e))
             M == round_ties_even(high * 2^(16 - r) + low \div 2^r, low % 2^r, 2^r)
             exponent == r + t - s
         IN IF exponent >= 0 THEN M * 2^exponent ELSE M \div 2^(0 - exponent)

saturating_sub(a, b) == IF b >= a THEN 0 ELSE a - b

WindowEnd(position, chunk_size, len) == Min(position + chunk_size, len)

NextPosition_Skip(position, chunk_size, overlap_tokens) ==
    position + chunk_size + 1

\* Line 63.
NextPosition(position, chunk_size, overlap_tokens) ==
    position + saturating_sub(chunk_size, overlap_tokens)

\* The 250-token document of the spec's second scenario, and the same
\* document with an overlap of 0.53.
Scenario2 == [text |-> Words(250),
              config |-> [chunk_size |-> Some(100), overlap_percent |-> Some(20)]]
Scenario2Wide == [text |-> Words(250),
                  config |-> [chunk_size |-> Some(100), overlap_percent |-> Some(53)]]

FixedTexts == {Words(n) : n \in 0..MaxTokens} \cup AccentedTexts \cup QuotedTexts
ChunkSizes == {None} \cup {Some(c) : c \in 0..MaxChunkSize}
OverlapPercents == {None, Some(0 - 50), Some(0), Some(50), Some(100), Some(150)}
FixedConfigs == {[chunk_size |-> c, overlap_percent |-> o] :
                   c \in ChunkSizes, o \in OverlapPercents}
ShortFixedInputs == {[text |-> t, config |-> c] : t \in FixedTexts, c \in FixedConfigs}
FixedInputs == ShortFixedInputs \cup {Scenario2, Scenario2Wide}

\* chunk, lines 29-36: read the configuration, encode the document.
FixedSizeBegin(text, config) ==
    /\ ck.pc \in {"none", "done", "failed"}
    /\ LET chunk_size == unwrap_or(config.chunk_size, DefaultChunkSize)
           overlap_percent == unwrap_or(config.overlap_percent, DefaultOverlapPercent)
       IN ck' = [strategy |-> "fixed_size", pc |-> "loop",
                 text |-> text, chunk_size |-> chunk_size,
                 overlap_percent |-> overlap_percent,
                 overlap_tokens |-> OverlapTokens(chunk_size, overlap_percent),
                 tokens |-> encode(text), position |-> 0, chunks |-> <<>>,
                 spin |-> FALSE]
    /\ UNCHANGED storeVars

\* What chunks becomes when chunk is pushed. A loop that has pushed more
\* chunks than there are tokens can only be repeating itself: its further
\* passes are taken, but their chunks are no longer kept, and spin records
\* that one more pass went by.
Push(chunks, chunk, tokens) ==
    IF Len(chunks) <= Len(tokens) THEN Append(chunks, chunk) ELSE chunks
Spin(spin, chunks, tokens) ==
    IF Len(chunks) <= Len(tokens) THEN spin ELSE ~spin

\* One evaluation of the while condition and, when it holds, one pass of the
\* loop body (lines 38-64). A window that does not decode ends the run with
\* Err (the ? of line 41): pc is "failed" and the chunks pushed so far are
\* dropped with the vector.
FixedSizeStep ==
    /\ ck.strategy = "fixed_size" /\ ck.pc = "loop"
    /\ IF ck.position < Len(ck.tokens)
       THEN LET end == WindowEnd(ck.position, ck.chunk_size, Len(ck.tokens))
                chunk_tokens == SubSeq(ck.tokens, ck.position + 1, end)
                content == decode(chunk_tokens)
                chunk == NewChunk(Len(ck.chunks) + 1, content.text,
                                  Len(chunk_tokens), Len(ck.chunks), None,
                                  [strategy |-> "fixed_size",
                                   chunk_size |-> ck.chunk_size,
                                   overlap_tokens |-> ck.overlap_tokens,
                                   token_range |-> <<ck.position, end>>])
            IN IF ~content.ok
               THEN ck' = [ck EXCEPT !.pc = "failed", !.chunks = <<>>]
               ELSE ck' = [ck EXCEPT
                             !.chunks = Push(@, chunk, ck.tokens),
                             !.spin = Spin(@, ck.chunks, ck.tokens),
                             !.pc = IF end = Len(ck.tokens) THEN "done" ELSE "loop",
                             !.position = IF end = Len(ck.tokens) THEN @
                                          ELSE NextPosition(@, ck.chunk_size,
                                                            ck.overlap_tokens)]
       ELSE ck' = [ck EXCEPT !.pc = "done"]
    /\ UNCHANGED storeVars

FixedSizeBeginStep == \E input \in FixedInputs : FixedSizeBegin(input.text, input.config)

\* FixedSize chunking runs, one after the other.
NextFixed == FixedSizeBeginStep \/ FixedSizeStep
SpecFixed == Init /\ [][NextFixed]_vars

\* The runs over the short documents with the loop scheduled: a loop that can
\* take a pass eventually takes it.
ShortFixedSizeBeginStep ==
    \E input \in ShortFixedInputs : FixedSizeBegin(input.text, input.config)
NextFixedLive == ShortFixedSizeBeginStep \/ FixedSizeStep
SpecFixedLive == Init /\ [][NextFixedLive]_vars /\ WF_vars(FixedSizeStep)

-----------------------------------------------------------------------------
(* SemanticChunker (chunking/semantic.rs) *)

\* A document is its paragraphs (the pieces between blank lines), a paragraph
\* its sentences (the pieces between the whitespace that follows . ! or ?),
\* a sentence its words; a blank piece has no word.
Sentence(n) == Words(n)
SentenceSizes == {1, 3}
Paragraphs == UNION {[1..n -> {Sentence(k) : k \in SentenceSizes}] : n \in 0..MaxSentences}
SemanticTexts == UNION {[1..n -> Paragraphs] : n \in 0..MaxParagraphs}
MinSizes == {None, Some(0), Some(2), Some(3)}
MaxSizes == {None, Some(2), Some(3), Some(4)}
SemanticConfigs == {[min_chunk_size |-> a, max_chunk_size |-> b] :
                      a \in MinSizes, b \in MaxSizes}

\* document.content.split("\n\n").filter(|p| !p.trim().is_empty())
split_paragraphs(content) == SelectSeq(content, LAMBDA p : Flatten(p) # <<>>)

\* sentence_regex.split(text).filter(|s| !s.trim().is_empty())
split_sentences(paragraph) == SelectSeq(paragraph, LAMBDA x : x # <<>>)

\* A piece of a chunk's content: the separator pushed before it, the unit it
\* is (paragraph para, or sentence sent of it; sent = 0 for a whole
\* paragraph) and its words.
Piece(sep, para, sent, words) == [sep |-> sep, para |-> para, sent |-> sent, words |-> words]

create_semantic_chunk(content, tokens, position) ==
    NewChunk(position + 1, content, tokens, position, None,
             [strategy |-> "semantic", boundary_type |-> "sentence"])

NoAccumulation == [chunks |-> <<>>, current_chunk |-> <<>>, current_tokens |-> 0]

\* Lines 105-112 and 126-133: push the accumulated chunk, restart with unit.
FlushThenStart(st, unit, unit_tokens) ==
    [chunks |-> Append(st.chunks,
                       create_semantic_chunk(st.current_chunk, st.current_tokens,
                                             Len(st.chunks))),
     current_chunk |-> <<[unit EXCEPT !.sep = ""]>>,
     current_tokens |-> unit_tokens]

\* Lines 114-119 and 135-140: append unit behind its separator.
Accumulate(st, unit, unit_tokens) ==
    [st EXCEPT
       !.current_chunk = Append(@, IF st.current_chunk # <<>> THEN unit
                                   ELSE [unit EXCEPT !.sep = ""]),
       !.current_tokens = @ + unit_tokens]

\* The flush rule of lines 103 and 124.
MustFlush(st, unit_tokens, min_size, max_size) ==
    st.current_tokens + unit_tokens > max_size /\ st.current_tokens >= min_size

AddUnit(st, unit, min_size, max_size) ==
    LET unit_tokens == count(unit.words)
    IN IF MustFlush(st, unit_tokens, min_size, max_size)
       THEN FlushThenStart(st, unit, unit_tokens)
       ELSE Accumulate(st, unit, unit_tokens)

\* Lines 87-96: before an oversized paragraph, push what is accumulated if
\* it has reached min_size.
FlushBeforeSplit(st, min_size) ==
    IF st.current_chunk # <<>> /\ st.current_tokens >= min_size
    THEN [chunks |-> Append(st.chunks,
                            create_semantic_chunk(st.current_chunk, st.current_tokens,
                                                  Len(st.chunks))),
          current_chunk |-> <<>>, current_tokens |-> 0]
    ELSE st

\* Lines 99-121: the sentences of paragraph para, from the j-th on.
RECURSIVE SentenceLoop(_, _, _, _, _, _)
SentenceLoop(st, sentences, para, j, min_size, max_size) ==
    IF j > Len(sentences) THEN st
    ELSE SentenceLoop(AddUnit(st, Piece(" ", para, j, sentences[j]), min_size, max_size),
                      sentences, para, j + 1, min_size, max_size)

\* Lines 81-143: the paragraphs from the i-th on.
RECURSIVE ParagraphLoop(_, _, _, _, _)
ParagraphLoop(st, paragraphs, i, min_size, max_size) ==
    IF i > Len(paragraphs) THEN st
    ELSE LET paragraph == paragraphs[i]
             para_tokens == count(Flatten(paragraph))
             next == IF para_tokens > max_size
                     THEN SentenceLoop(FlushBeforeSplit(st, min_size),
                                       split_sentences(paragraph), i, 1,
                                       min_size, max_size)
                     ELSE AddUnit(st, Piece("\n\n", i, 0, Flatten(paragraph)),
                                  min_size, max_size)
         IN ParagraphLoop(next, paragraphs, i + 1, min_size, max_size)

\* Lines 145-153: what is still accumulated becomes the last chunk.
FinalFlush(st) ==
    IF st.current_chunk # <<>>
    THEN Append(st.chunks,
                create_semantic_chunk(st.current_chunk, st.current_tokens,
                                      Len(st.chunks)))
    ELSE st.chunks

semantic_chunk(content, config) ==
    LET min_size == unwrap_or(config.min_chunk_size, DefaultMinChunkSize)
        max_size == unwrap_or(config.max_chunk_size, DefaultMaxChunkSize)
    IN FinalFlush(ParagraphLoop(NoAccumulation, split_paragraphs(content), 1,
                                min_size, max_size))

\* SemanticChunker::new, lines 24-31: the sentence pattern (?<=[.!?])\s+ has
\* a look-behind, which the regex crate does not compile, and the result is
\* unwrapped: the constructor panics.
SemanticNew ==
    /\ ck.pc = "none"
    /\ ck' = [strategy |-> "semantic", pc |-> "panicked"]
    /\ UNCHANGED storeVars

\* SemanticChunker::chunk, lines 66-162, a method of a chunker that new has
\* returned (pc = "ready"). SemanticNew, the only constructor, returns none,
\* so no run enters it.
SemanticChunk(content, config) ==
    /\ ck.strategy = "semantic" /\ ck.pc = "ready"
    /\ ck' = [strategy |-> "semantic", pc |-> "done",
              text |-> content,
              paragraphs |-> split_paragraphs(content),
              min_size |-> unwrap_or(config.min_chunk_size, DefaultMinChunkSize),
              max_size |-> unwrap_or(config.max_chunk_size, DefaultMaxChunkSize),
              chunks |-> semantic_chunk(content, config)]
    /\ UNCHANGED storeVars

SemanticNewStep == SemanticNew
SemanticChunkStep ==
    \E content \in SemanticTexts, config \in SemanticConfigs :
        SemanticChunk(content, config)

\* The constructor is called; chunk would follow on the chunker it returned.
NextSemantic == SemanticNewStep \/ SemanticChunkStep
SpecSemantic == Init /\ [][NextSemantic]_vars

-----------------------------------------------------------------------------
(* HierarchicalChunker (chunking/hierarchical.rs) *)

HierTexts == {Words(n) : n \in 0..MaxTokens} \cup AccentedTexts \cup QuotedTexts
ParentSizes == {None} \cup {Some(c) : c \in 0..MaxChunkSize}
ChildSizes == {None} \cup {Some(c) : c \in 0..(MaxChunkSize - 1)}
MaxDepths == {None, Some(0), Some(1), Some(2)}
HierConfigs == {[parent_chunk_size |-> a, child_chunk_size |-> b, max_depth |-> d] :
                  a \in ParentSizes, b \in ChildSizes, d \in MaxDepths}

\* The configuration of the spec's third scenario (test_hierarchical_chunking)
\* and documents of 1000 tokens: plain words; two apostrophes in front of
\* letters, the second apostrophe being the first token of the second or of
\* the fourth parent; an accented letter whose two bytes are the last token
\* of the first parent and the first token of the second.
Scenario3Config == [parent_chunk_size |-> Some(300),
                    child_chunk_size |-> Some(100),
                    max_depth |-> Some(2)]
Scenario3Texts ==
    {Words(1000),
     Words(299) \o <<"'", "'", "s", "s">> \o Words(698),
     Words(299) \o <<"'", "'", "s", "w", "s", "s">> \o Words(698),
     Words(899) \o <<"'", "'", "s", "w", "s", "s">> \o Words(98),
     Words(299) \o <<"e1", "e2">> \o Words(699)}
HierInputs == {[text |-> t, config |-> c] : t \in HierTexts, c \in HierConfigs}
                \cup {[text |-> t, config |-> Scenario3Config] : t \in Scenario3Texts}

ParentMetadata == [strategy |-> "hierarchical", level |-> 0, is_parent |-> TRUE,
                   parent_id |-> None]
ChildMetadata(parent) == [strategy |-> "hierarchical", level |-> 1, is_parent |-> FALSE,
                          parent_id |-> Some(parent.id)]

NoChildRun == [parent |-> 0, tokens |-> <<>>, position |-> 0, chunks |-> <<>>,
               base_position |-> 0]

\* chunk, lines 106-111, and create_parent_chunks, lines 32-34.
HierBegin(text, config) ==
    /\ ck.pc = "none"
    /\ ck' = [strategy |-> "hierarchical", pc |-> "parents", text |-> text,
              parent_size |-> unwrap_or(config.parent_chunk_size, DefaultParentChunkSize),
              child_size |-> unwrap_or(config.child_chunk_size, DefaultChildChunkSize),
              max_depth |-> unwrap_or(config.max_depth, DefaultMaxDepth),
              tokens |-> encode(text), position |-> 0, parent_chunks |-> <<>>,
              ids |-> 0, p |-> 1, next_position |-> 0, all_chunks |-> <<>>,
              child |-> NoChildRun, spin |-> FALSE]
    /\ UNCHANGED storeVars

\* chunk returns Err (the ? of lines 39, 80, 114 and 128): the vectors built
\* so far are dropped.
HierFailed == [ck EXCEPT !.pc = "failed", !.parent_chunks = <<>>,
                         !.all_chunks = <<>>, !.child = NoChildRun]

\* create_parent_chunks, lines 36-57: one test of the while condition and one
\* pass of its body, or the return of the parents.
HierParentStep ==
    /\ ck.strategy = "hierarchical" /\ ck.pc = "parents"
    /\ IF ck.position < Len(ck.tokens)
       THEN LET end == WindowEnd(ck.position, ck.parent_size, Len(ck.tokens))
                chunk_tokens == SubSeq(ck.tokens, ck.position + 1, end)
                content == decode(chunk_tokens)
                chunk == NewChunk(ck.ids + 1, content.text, Len(chunk_tokens),
                                  Len(ck.parent_chunks), None, ParentMetadata)
            IN IF ~content.ok
               THEN ck' = HierFailed
               ELSE ck' = [ck EXCEPT !.parent_chunks = Push(@, chunk, ck.tokens),
                                     !.spin = Spin(@, ck.parent_chunks, ck.tokens),
                                     !.ids = IF Len(ck.parent_chunks) <= Len(ck.tokens)
                                             THEN @ + 1 ELSE @,
                                     !.position = end]
       ELSE ck' = [ck EXCEPT !.pc = "outer"]
    /\ UNCHANGED storeVars

ChildrenAllowed_Always(max_depth) == TRUE

\* Line 125.
ChildrenAllowed(max_depth) == max_depth > 1

NeedsChildren_Always(parent_tokens, child_size) == TRUE

\* create_child_chunks, line 71, negated.
NeedsChildren(parent_tokens, child_size) == Len(parent_tokens) > child_size

\* chunk, lines 117-131, up to the child loop: the next parent is pushed with
\* the next position and create_child_chunks is entered (lines 68-76), where
\* the parent's text is encoded anew; after the last parent the result is
\* returned.
HierOuterStep ==
    /\ ck.strategy = "hierarchical" /\ ck.pc = "outer"
    /\ IF ck.p > Len(ck.parent_chunks)
       THEN ck' = [ck EXCEPT !.pc = "done"]
       ELSE LET parent == ck.parent_chunks[ck.p]
                parent_with_position == [parent EXCEPT !.position = ck.next_position]
                tokens == encode(parent.content)
            IN IF ChildrenAllowed(ck.max_depth) /\ NeedsChildren(tokens, ck.child_size)
               THEN ck' = [ck EXCEPT
                             !.all_chunks = Append(@, parent_with_position),
                             !.next_position = @ + 1,
                             !.pc = "children",
                             !.child = [parent |-> ck.p, tokens |-> tokens,
                                        position |-> 0, chunks |-> <<>>,
                                        base_position |-> ck.next_position + 1]]
               ELSE ck' = [ck EXCEPT
                             !.all_chunks = Append(@, parent_with_position),
                             !.next_position = @ + 1,
                             !.p = @ + 1]
    /\ UNCHANGED storeVars

AppendChildren_First(all_chunks, children) == children \o all_chunks

\* Line 130.
AppendChildren(all_chunks, children) == all_chunks \o children

\* create_child_chunks, lines 77-99, and chunk, lines 129-130: one test of the
\* while condition and one pass of its body, or the return of the children,
\* which are appended to the result.
HierChildStep ==
    /\ ck.strategy = "hierarchical" /\ ck.pc = "children"
    /\ IF ck.child.position < Len(ck.child.tokens)
       THEN LET end == WindowEnd(ck.child.position, ck.child_size, Len(ck.child.tokens))
                chunk_tokens == SubSeq(ck.child.tokens, ck.child.position + 1, end)
                content == decode(chunk_tokens)
                parent == ck.parent_chunks[ck.child.parent]
                chunk == NewChunk(ck.ids + 1, content.text, Len(chunk_tokens),
                                  ck.child.base_position + Len(ck.child.chunks),
                                  Some(parent.id), ChildMetadata(parent))
            IN IF ~content.ok
               THEN ck' = HierFailed
               ELSE ck' = [ck EXCEPT !.child.chunks = Push(@, chunk, ck.child.tokens),
                                     !.spin = Spin(@, ck.child.chunks, ck.child.tokens),
                                     !.ids = IF Len(ck.child.chunks) <= Len(ck.child.tokens)
                                             THEN @ + 1 ELSE @,
                                     !.child.position = end]
       ELSE ck' = [ck EXCEPT
                     !.next_position = @ + Len(ck.child.chunks),
                     !.all_chunks = AppendChildren(@, ck.child.chunks),
                     !.child = NoChildRun,
                     !.p = @ + 1,
                     !.pc = "outer"]
    /\ UNCHANGED storeVars

HierBeginStep == \E input \in HierInputs : HierBegin(input.text, input.config)

\* A Hierarchical chunker chunks one document.
NextHier == HierBeginStep \/ HierParentStep \/ HierOuterStep \/ HierChildStep
SpecHier == Init /\ [][NextHier]_vars

-----------------------------------------------------------------------------
(* StructureAwareChunker (chunking/structure_aware.rs) *)

\* A markdown text is its characters: "fence" (three backticks), "|", "\n"
\* and the letter "w"; id is the character's place in the document.
Symbols == {"fence", "|", "\n", "w"}
Char(c, id) == [c |-> c, id |-> id]
MarkdownTexts ==
    UNION {{[i \in 1..n |-> Char(cs[i], i)] : cs \in [1..n -> Symbols]} :
             n \in 0..MaxChars}
Flags == {None, Some(TRUE), Some(FALSE)}
StructureConfigs ==
    {[preserve_code_blocks |-> c, preserve_tables |-> t, max_chunk_size |-> m] :
       c \in Flags, t \in Flags, m \in {None, Some(0), Some(1)}}

\* The first fence at or after place from, 0 if there is none.
RECURSIVE FirstFence(_, _)
FirstFence(text, from) ==
    IF from > Len(text) THEN 0
    ELSE IF text[from].c = "fence" THEN from
    ELSE FirstFence(text, from + 1)

\* code_block_regex.find_iter(text), (?s)```[\s\S]*?```: from a fence to the
\* next fence, then on from behind it; a match is <<first place, last place>>.
RECURSIVE code_block_matches(_, _)
code_block_matches(text, from) ==
    LET open == FirstFence(text, from)
        close == IF open = 0 THEN 0 ELSE FirstFence(text, open + 1)
    IN IF close = 0 THEN <<>>
       ELSE <<<<open, close>>>> \o code_block_matches(text, close + 1)

\* ^ and $ of table_regex, (?m): a line starts at the start of the searched
\* text and behind a newline, and ends in front of a newline and at the end.
LineStart(text, i) == i = 1 \/ text[i - 1].c = "\n"
RECURSIVE LineEnd(_, _)
LineEnd(text, i) ==
    IF i >= Len(text) \/ text[i + 1].c = "\n" THEN i ELSE LineEnd(text, i + 1)

\* ^\|.*\|$ at place a: the last place of the line if the line starts at a
\* with |, ends with another |, and a is a line start; 0 otherwise.
RowEnd(text, a) ==
    IF a >= 1 /\ a <= Len(text) /\ LineStart(text, a) /\ text[a].c = "|"
       /\ LineEnd(text, a) > a /\ text[LineEnd(text, a)].c = "|"
    THEN LineEnd(text, a) ELSE 0

\* (\n\|.*\|$)*: the rows that follow the row ending at place e.
RECURSIVE RowsEnd(_, _)
RowsEnd(text, e) ==
    IF RowEnd(text, e + 2) # 0 THEN RowsEnd(text, RowEnd(text, e + 2)) ELSE e

\* table_regex.find_iter(text): the runs of consecutive rows.
RECURSIVE table_matches(_, _)
table_matches(text, from) ==
    IF from > Len(text) THEN <<>>
    ELSE IF RowEnd(text, from) = 0 THEN table_matches(text, from + 1)
    ELSE LET last == RowsEnd(text, RowEnd(text, from))
         IN <<<<from, last>>>> \o table_matches(text, last + 1)

\* TextSegment: content and the offsets [start, end) it had in the document.
TextSegment(content, segment_type, start, end) ==
    [content |-> content, segment_type |-> segment_type, start |-> start, end |-> end]

TextBefore_Dropped(text, last_pos, mat_start, offset) == <<>>

\* Lines 48-55 and 104-111: the text between the last match and this one.
TextBefore(text, last_pos, mat_start, offset) ==
    IF mat_start > last_pos
    THEN <<TextSegment(SubSeq(text, last_pos + 1, mat_start), "Text",
                       offset + last_pos, offset + mat_start)>>
    ELSE <<>>

\* The loops of lines 46-66 and 103-121 from the k-th match on: the text
\* before each match, then the match; returns the segments and last_pos.
RECURSIVE MatchLoop(_, _, _, _, _, _, _)
MatchLoop(text, matches, k, last_pos, offset, segment_type, segments) ==
    IF k > Len(matches) THEN [segments |-> segments, last_pos |-> last_pos]
    ELSE LET mat_start == matches[k][1] - 1
             mat_end == matches[k][2]
         IN MatchLoop(text, matches, k + 1, mat_end, offset, segment_type,
                      segments
                        \o TextBefore(text, last_pos, mat_start, offset)
                        \o <<TextSegment(SubSeq(text, mat_start + 1, mat_end),
                                         segment_type, offset + mat_start,
                                         offset + mat_end)>>)

\* Lines 125-132 and 77-82: what is left behind the last match, as text.
RemainingText(text, last_pos, offset) ==
    IF last_pos < Len(text)
    THEN <<TextSegment(SubSeq(text, last_pos + 1, Len(text)), "Text",
                       offset + last_pos, offset + Len(text))>>
    ELSE <<>>

extract_tables_and_lists(text, offset, config, segments) ==
    LET r == IF unwrap_or(config.preserve_tables, TRUE)
             THEN MatchLoop(text, table_matches(text, 1), 1, 0, offset, "Table", segments)
             ELSE [segments |-> segments, last_pos |-> 0]
    IN r.segments \o RemainingText(text, r.last_pos, offset)

\* segments.sort_by_key(|s| s.start): a stable sort.
RECURSIVE InsertByStart(_, _)
InsertByStart(sorted, seg) ==
    IF sorted = <<>> THEN <<seg>>
    ELSE IF sorted[Len(sorted)].start <= seg.start THEN Append(sorted, seg)
    ELSE Append(InsertByStart(SubSeq(sorted, 1, Len(sorted) - 1), seg),
                sorted[Len(sorted)])
RECURSIVE SortByStart(_)
SortByStart(segments) ==
    IF segments = <<>> THEN <<>>
    ELSE InsertByStart(SortByStart(SubSeq(segments, 1, Len(segments) - 1)),
                       segments[Len(segments)])

\* Lines 40-89. The tables are looked for in remaining, the text behind the
\* last code block, searched as a text of its own.
extract_structures(text, config) ==
    LET r == IF unwrap_or(config.preserve_code_blocks, TRUE)
             THEN MatchLoop(text, code_block_matches(text, 1), 1, 0, 0, "CodeBlock", <<>>)
             ELSE [segments |-> <<>>, last_pos |-> 0]
        remaining == SubSeq(text, r.last_pos + 1, Len(text))
        segments ==
            IF r.last_pos < Len(text)
            THEN IF unwrap_or(config.preserve_tables, TRUE)
                 THEN extract_tables_and_lists(remaining, r.last_pos, config, r.segments)
                 ELSE r.segments \o RemainingText(text, r.last_pos, 0)
            ELSE r.segments
    IN SortByStart(segments)

\* The newline pushed between two text segments that share a chunk.
Joiner == Char("\n", 0)

\* The bytes of a content, as the tokenizer reads them.
BytesOf(content) == [i \in 1..Len(content) |-> content[i].c]

TextChunk(st) ==
    NewChunk(Len(st.chunks) + 1, st.current_chunk, st.current_tokens, Len(st.chunks),
             None, [strategy |-> "structure_aware", segment_type |-> "text",
                    preserved |-> FALSE])

\* Lines 171-185, 205-217 and 232-244: push the accumulated text, if any.
FlushText(st) ==
    IF st.current_chunk # <<>> THEN Append(st.chunks, TextChunk(st)) ELSE st.chunks

\* Lines 165-228: one pass of the loop over the segments.
AddSegment(st, segment, max_size) ==
    LET segment_tokens == count(BytesOf(segment.content))
        flushed == FlushText(st)
    IN IF segment.segment_type \in {"CodeBlock", "Table", "List"}
       THEN [chunks |-> Append(flushed,
                               NewChunk(Len(flushed) + 1, segment.content,
                                        segment_tokens, Len(flushed), None,
                                        [strategy |-> "structure_aware",
                                         segment_type |-> segment.segment_type,
                                         preserved |-> TRUE])),
             current_chunk |-> <<>>, current_tokens |-> 0]
       ELSE IF st.current_tokens + segment_tokens > max_size
            THEN [chunks |-> flushed, current_chunk |-> segment.content,
                  current_tokens |-> segment_tokens]
            ELSE [chunks |-> st.chunks,
                  current_chunk |-> IF st.current_chunk # <<>>
                                    THEN st.current_chunk \o <<Joiner>> \o segment.content
                                    ELSE segment.content,
                  current_tokens |-> st.current_tokens + segment_tokens]

RECURSIVE SegmentLoop(_, _, _, _)
SegmentLoop(st, segments, i, max_size) ==
    IF i > Len(segments) THEN st
    ELSE SegmentLoop(AddSegment(st, segments[i], max_size), segments, i + 1, max_size)

structure_aware_chunk(text, config) ==
    LET max_size == unwrap_or(config.max_chunk_size, DefaultMaxChunkSize)
    IN FlushText(SegmentLoop(NoAccumulation, extract_structures(text, config), 1,
                             max_size))

\* StructureAwareChunker::chunk on the chunker get_chunker built.
StructureAwareChunk(text, config) ==
    /\ ck.pc = "none"
    /\ ck' = [strategy |-> "structure_aware", pc |-> "done", text |-> text,
              preserve_code_blocks |-> unwrap_or(config.preserve_code_blocks, TRUE),
              preserve_tables |-> unwrap_or(config.preserve_tables, TRUE),
              max_size |-> unwrap_or(config.max_chunk_size, DefaultMaxChunkSize),
              segments |-> extract_structures(text, config),
              chunks |-> structure_aware_chunk(text, config)]
    /\ UNCHANGED storeVars

StructureAwareChunkStep ==
    \E text \in MarkdownTexts, config \in StructureConfigs :
        StructureAwareChunk(text, config)

\* A StructureAware chunker chunks one document.
NextStructure == StructureAwareChunkStep
SpecStructure == Init /\ [][NextStructure]_vars

-----------------------------------------------------------------------------
(* Helpers of the properties *)

IsAddOp(op) == op \in {"add_chunk", "add_chunks_batch", "process_document"}
RowsOfKb(tbl, kb) == SelectSeq(tbl, LAMBDA r : r.knowledge_base_id = kb)
RowsNotOfKb(tbl, kb) == SelectSeq(tbl, LAMBDA r : r.knowledge_base_id # kb)
ScoresDescend(results) ==
    \A i, j \in 1..Len(results) : i < j => results[i].score >= results[j].score
Called(p, fn) == \E i \in 1..Len(pd[p].calls) : pd[p].calls[i].fn = fn
ExpectedTexts(document) == [i \in 1..Len(document.content) |-> <<document.id, i - 1>>]

\* idx with the vectors of the first n of rows added under their positions.
RECURSIVE WithVectorsOf(_, _, _)
WithVectorsOf(idx, rows, n) ==
    IF n = 0 THEN idx
    ELSE (rows[n].position :> EmbeddingOf(rows[n].content))
           @@ WithVectorsOf(idx, rows, n - 1)
\* No key of idx is gone from idx2 or has another vector there.
KeepsVectors(idx, idx2) ==
    \A k \in DOMAIN idx : k \in DOMAIN idx2 /\ idx2[k] = idx[k]

\* The token counts of the rows of kb, added up row by row.
RECURSIVE SumTokensOfRows(_, _)
SumTokensOfRows(tbl, kb) ==
    IF tbl = <<>> THEN 0
    ELSE (IF Head(tbl).knowledge_base_id = kb THEN Head(tbl).tokens ELSE 0)
           + SumTokensOfRows(Tail(tbl), kb)

\* The rows of kb are three, their texts' embeddings are pairwise orthogonal
\* and each stands in the index under the row's position.
ThreeOrthogonal(tbl, kb) ==
    LET rows == RowsOfKb(tbl, kb)
    IN /\ Len(rows) = 3
       /\ \A i \in 1..3 : /\ rows[i].position \in DOMAIN index
                          /\ index[rows[i].position] = EmbeddingOf(rows[i].content)
       /\ \A i, j \in 1..3 :
             i # j => /\ rows[i].position # rows[j].position
                      /\ Dot(EmbeddingOf(rows[i].content), EmbeddingOf(rows[j].content)) = 0

\* Fixed-size runs: the token range of the i-th emitted chunk, and the text
\* rebuilt from the chunks by dropping from the front of each chunk's content
\* the bytes of the tokens the chunk before it already covered.
FixedRun == ck.strategy = "fixed_size"
FixedDone == FixedRun /\ ck.pc = "done"
RangeStart(chunks, i) == chunks[i].metadata.token_range[1]
RangeEnd(chunks, i) == chunks[i].metadata.token_range[2]
RECURSIVE Rebuild(_, _, _)
Rebuild(chunks, tokens, i) ==
    IF i > Len(chunks) THEN <<>>
    ELSE LET covered == IF i = 1 THEN 0
                        ELSE RangeEnd(chunks, i - 1) - RangeStart(chunks, i)
             skip == Len(Flatten(SubSeq(tokens, RangeStart(chunks, i) + 1,
                                        RangeStart(chunks, i) + covered)))
         IN SubSeq(chunks[i].content, skip + 1, Len(chunks[i].content))
              \o Rebuild(chunks, tokens, i + 1)
\* The tokens of the chunks' ranges, those a chunk before already covered
\* left out.
RECURSIVE RebuildTokens(_, _, _)
RebuildTokens(chunks, tokens, i) ==
    IF i > Len(chunks) THEN <<>>
    ELSE LET from == IF i = 1 THEN RangeStart(chunks, 1)
                     ELSE IF RangeEnd(chunks, i - 1) > RangeStart(chunks, i)
                          THEN RangeEnd(chunks, i - 1) ELSE RangeStart(chunks, i)
         IN SubSeq(tokens, from + 1, RangeEnd(chunks, i))
              \o RebuildTokens(chunks, tokens, i + 1)

RECURSIVE SumChunkTokens(_)
SumChunkTokens(chunks) ==
    IF chunks = <<>> THEN 0 ELSE Head(chunks).tokens + SumChunkTokens(Tail(chunks))

\* Hierarchical runs.
HierDone == ck.strategy = "hierarchical" /\ ck.pc = "done"
IsParent(chunk) == chunk.parent_chunk_id = None
ChildrenOf(chunks, parent) ==
    SelectSeq(chunks, LAMBDA c : c.parent_chunk_id = Some(parent.id))
\* The index of the parent that stands nearest before index i, 0 if none.
RECURSIVE ParentBefore(_, _)
ParentBefore(chunks, i) ==
    IF i = 0 THEN 0
    ELSE IF IsParent(chunks[i]) THEN i ELSE ParentBefore(chunks, i - 1)
ContentsOf(chunks) == Flatten([i \in 1..Len(chunks) |-> chunks[i].content])

IsScenario3 ==
    /\ ck.strategy = "hierarchical" /\ Len(ck.tokens) = 1000
    /\ ck.parent_size = 300 /\ ck.child_size = 100 /\ ck.max_depth = 2
ParentsOf(chunks) == SelectSeq(chunks, IsParent)

\* StructureAware runs: the fenced code blocks of a document and its tables,
\* the runs of consecutive rows, each as <<first place, last place>>.
StructureDone == ck.strategy = "structure_aware" /\ ck.pc = "done"
CodeBlocksOf(text) ==
    {code_block_matches(text, 1)[k] : k \in 1..Len(code_block_matches(text, 1))}
InCodeBlock(text, i) == \E b \in CodeBlocksOf(text) : b[1] <= i /\ i <= b[2]
DocumentTables(text) ==
    {table_matches(text, 1)[k] : k \in 1..Len(table_matches(text, 1))}
\* The rows no place of which lies in a code block, and the tables made of
\* them: the runs of consecutive such rows.
OutsideRow(text, a) ==
    /\ RowEnd(text, a) # 0
    /\ \A i \in a..RowEnd(text, a) : ~InCodeBlock(text, i)
RECURSIVE OutsideRowsEnd(_, _)
OutsideRowsEnd(text, e) ==
    IF OutsideRow(text, e + 2) THEN OutsideRowsEnd(text, RowEnd(text, e + 2)) ELSE e
TablesOf(text) ==
    {<<a, OutsideRowsEnd(text, RowEnd(text, a))>> :
        a \in {a \in 1..Len(text) :
                 /\ OutsideRow(text, a)
                 /\ ~\E p \in 1..a : OutsideRow(text, p) /\ RowEnd(text, p) = a - 2}}
PlacesOf(text, span) == SubSeq(text, span[1], span[2])
\* part stands, whole and in one piece, in content.
Holds(content, part) ==
    \E k \in 1..Len(content) :
        /\ k + Len(part) - 1 <= Len(content)
        /\ SubSeq(content, k, k + Len(part) - 1) = part
\* The places of the chunks' contents at which the character stands.
Occurrences(chunks, char) ==
    {<<c, k>> \in UNION {{c} \X (1..Len(chunks[c].content)) : c \in 1..Len(chunks)} :
        chunks[c].content[k] = char}
Unsplit(chunks, text, span) ==
    /\ Cardinality({c \in 1..Len(chunks) : Holds(chunks[c].content, PlacesOf(text, span))}) = 1
    /\ \A i \in span[1]..span[2] : Cardinality(Occurrences(chunks, text[i])) = 1

\* The configuration of the run under way with max_chunk_size replaced by m.
WithMaxChunkSize(m) ==
    [preserve_code_blocks |-> Some(ck.preserve_code_blocks),
     preserve_tables |-> Some(ck.preserve_tables),
     max_chunk_size |-> m]
ProbedMaxSizes == {None} \cup {Some(k) : k \in 0..MaxChars}
\* One chunk per segment, with the segment's content and token count, no two
\* text segments next to each other, and the same chunks for every
\* max_chunk_size.
OneChunkPerSegment ==
    /\ \A i \in 1..(Len(ck.segments) - 1) :
          ~(ck.segments[i].segment_type = "Text" /\ ck.segments[i + 1].segment_type = "Text")
    /\ Len(ck.chunks) = Len(ck.segments)
    /\ \A i \in 1..Len(ck.chunks) :
          /\ ck.chunks[i].content = ck.segments[i].content
          /\ ck.chunks[i].tokens = count(BytesOf(ck.segments[i].content))
          /\ ck.chunks[i].position = i - 1
    /\ ContentsOf(ck.chunks) = ck.text
    /\ \A m \in ProbedMaxSizes : structure_aware_chunk(ck.text, WithMaxChunkSize(m)) = ck.chunks
NoStructures(text) == CodeBlocksOf(text) = {} /\ TablesOf(text) = {}

\* floor(chunk_size x overlap_percent), overlap_percent in hundredths.
FloorOverlap(chunk_size, overlap_percent) == (chunk_size * overlap_percent) \div 100
Max(a, b) == IF a > b THEN a ELSE b
TokenRanges(chunks) == [i \in 1..Len(chunks) |-> chunks[i].metadata.token_range]
IsScenario2 ==
    FixedRun /\ ck.text = Scenario2.text /\ ck.chunk_size = 100 /\ ck.overlap_percent = 20

-----------------------------------------------------------------------------
(* Properties *)

\* C1: a process_document call that fails in get_chunker, chunk or embed_batch
\* returns an error having left the chunks table and the ANN index exactly as
\* they were and without having called add_chunks_batch.
C1_FailureStoresNothing ==
    [][\A p \in Procs :
          (/\ ret'.op \in {"process_document_begin", "process_document"}
           /\ ret'.caller = p
           /\ pd'[p].error \in {"get_chunker", "chunk", "embed"})
          => /\ pc'[p] = "failed" /\ ~ret'.ok
             /\ table' = table /\ index' = index
             /\ ~Called(p, "add_chunks_batch")']_vars

\* C1 witness: an ingestion has failed in embed_batch while the store holds
\* the chunks of another one.
C1_Witness ==
    \E p \in Procs : /\ pc[p] = "failed" /\ pd[p].error = "embed"
                     /\ Len(pd[p].chunks) = 2 /\ table # <<>> /\ DOMAIN index # {}

\* C2: every add_chunks_batch, called alone or by an ingestion interleaved
\* with another one, leaves the chunks table with all rows of its batch
\* appended when it succeeds and exactly as it was when it fails; in every
\* state the table holds all rows of an ingestion's batch or none of them.
C2_BatchAtomic ==
    /\ [][ret'.op \in {"add_chunks_batch", "process_document"}
             => IF ret'.ok THEN table' = table \o ret'.rows ELSE table' = table]_vars
    /\ [](\A p \in Procs :
             Called(p, "add_chunks_batch") =>
                LET ids == {pd[p].chunks[i].id : i \in 1..Len(pd[p].chunks)}
                    stored == {table[i].id : i \in 1..Len(table)}
                IN ids \subseteq stored \/ ids \cap stored = {})

\* C2 witness: a batch of two chunks failed in the store after the first
\* chunk's vector went into the index, next to rows of an earlier ingestion.
C2_Witness ==
    /\ ret.op = "process_document" /\ ~ret.ok /\ Len(ret.rows) = 2
    /\ pd[ret.caller].error = "store"
    /\ pd[ret.caller].chunks[1].embedding # NoEmbedding
    /\ table # <<>>
    /\ \E q \in Procs : q # ret.caller /\ pc[q] = "done"

\* C3: the calls of one process_document are a prefix of chunk, embed_batch,
\* add_chunks_batch; embed_batch gets all chunk texts in chunk order, is not
\* called again after it failed, and add_chunks_batch is called only after
\* embed_batch succeeded.
C3_StepOrder ==
    \A p \in Procs :
        LET calls == pd[p].calls
        IN /\ Len(calls) <= 3
           /\ Len(calls) >= 1 => calls[1].fn = "chunk"
           /\ Len(calls) >= 2 => /\ calls[2].fn = "embed_batch"
                                 /\ calls[2].texts = ExpectedTexts(pd[p].document)
                                 /\ calls[2].texts = Contents(pd[p].chunks)
           /\ Len(calls) >= 3 => /\ calls[3].fn = "add_chunks_batch"
                                 /\ pd[p].error \in {"none", "store"}
           /\ pd[p].error = "embed" => Len(calls) = 2
           /\ pc[p] = "embedding" => Len(calls) = 2
           /\ pc[p] = "done" => Len(calls) = 3

\* C3 witness: an ingestion of two chunks has gone through all three calls.
C3_Witness ==
    \E p \in Procs : pc[p] = "done" /\ Len(pd[p].calls) = 3 /\ Len(pd[p].calls[2].texts) = 2

\* C4: when process_document has succeeded, the i-th returned chunk carries the
\* i-th vector of embed_batch's answer, no returned chunk has an empty
\* embedding and the index has a vector under every returned chunk's key.
C4_NoPartialEmbedding ==
    \A p \in Procs :
        pc[p] = "done" =>
            \A i \in 1..Len(pd[p].chunks) :
                /\ i <= Len(pd[p].vectors)
                /\ pd[p].chunks[i].embedding = pd[p].vectors[i]
                /\ pd[p].chunks[i].embedding # NoEmbedding
                /\ pd[p].chunks[i].position \in DOMAIN index

\* C5: once delete_chunks_by_kb(id) has returned, get_chunks_by_kb(id) is empty,
\* and it stays empty until a call adds chunks to id.
C5_DeleteEmpties ==
    [][\A kb \in KBs :
          /\ (ret'.op = "delete_chunks_by_kb" /\ ret'.ok /\ ret'.kb = kb)
                => get_chunks_by_kb(table', kb) = <<>>
          /\ (get_chunks_by_kb(table, kb) = <<>> /\ get_chunks_by_kb(table', kb) # <<>>)
                => /\ IsAddOp(ret'.op)
                   /\ \E i \in 1..Len(ret'.rows) : ret'.rows[i].knowledge_base_id = kb]_vars

\* C5 witness: a delete has returned on a store that held vectors, and the
\* other knowledge base still has rows.
C5_Witness ==
    /\ ret.op = "delete_chunks_by_kb" /\ ret.ok
    /\ get_chunks_by_kb(table, ret.kb) = <<>>
    /\ \E k \in DOMAIN index : \A i \in 1..Len(table) : table[i].position # k
    /\ table # <<>>

\* C6: delete_chunks_by_kb(id) leaves the ANN index as it was and leaves the
\* rows of every other knowledge base as they were.
C6_DeleteFrame ==
    [][ret'.op = "delete_chunks_by_kb"
          => /\ index' = index
             /\ RowsNotOfKb(table', ret'.kb) = RowsNotOfKb(table, ret'.kb)
             /\ \A kb \in KBs \ {ret'.kb} : get_chunks_by_kb(table', kb) = get_chunks_by_kb(table, kb)]_vars

\* C6 witness: after a delete the index still holds a vector under a key for
\* which the deleted knowledge base has no row left, and the other knowledge
\* base has a row.
C6_Witness ==
    /\ ret.op = "delete_chunks_by_kb" /\ ret.ok
    /\ RowsOfKb(table, ret.kb) = <<>>
    /\ RowsNotOfKb(table, ret.kb) # <<>>
    /\ Cardinality(DOMAIN index) = 2

\* C7: RAGService.search returns the global top-limit of the concatenated
\* per-knowledge-base results: at most limit entries, by descending score,
\* each taken from the candidates, and no candidate left out scores higher
\* than an entry returned.
C7_GlobalTopLimit ==
    (ret.op = "rag_search" /\ ret.ok) =>
        /\ Len(ret.result) = Min(ret.limit, Len(ret.cands))
        /\ ScoresDescend(ret.result)
        /\ \E f \in [1..Len(ret.result) -> 1..Len(ret.cands)] :
              /\ \A i, j \in 1..Len(ret.result) : i # j => f[i] # f[j]
              /\ \A i \in 1..Len(ret.result) : ret.result[i] = ret.cands[f[i]]
              /\ \A j \in 1..Len(ret.cands) :
                    (\A i \in 1..Len(ret.result) : f[i] # j)
                        => \A i \in 1..Len(ret.result) : ret.cands[j].score <= ret.result[i].score

\* C7 witness: two knowledge bases gave more candidates than limit, the best
\* one was not the first, and the result is cut to limit.
C7_Witness ==
    /\ ret.op = "rag_search" /\ ret.ok /\ ret.limit >= 1
    /\ Len(ret.cands) > ret.limit
    /\ \E i \in 2..Len(ret.cands) :
          /\ ret.cands[i].score > ret.cands[1].score
          /\ ret.cands[i].chunk.knowledge_base_id # ret.cands[1].chunk.knowledge_base_id

\* C8: VectorStore.search returns at most limit results, by non-increasing
\* score (nearest first).
C8_SearchRanked ==
    (ret.op = "search" /\ ret.ok) =>
        /\ Len(ret.result) <= ret.limit
        /\ ScoresDescend(ret.result)

\* C8 witness: a search has returned two results of different scores.
C8_Witness ==
    /\ ret.op = "search" /\ ret.ok /\ Len(ret.result) = 2
    /\ ret.result[1].score > ret.result[2].score

\* C9: VectorStore.search(kb, q, limit) returns only chunks of kb.
C9_OnlyRequestedKb ==
    (ret.op = "search" /\ ret.ok) =>
        \A i \in 1..Len(ret.result) : ret.result[i].chunk.knowledge_base_id = ret.kb

\* C9 witness: the result is shorter than limit although the knowledge base
\* has at least limit rows whose key is in the index: a key of the other
\* knowledge base was dropped.
C9_Witness ==
    /\ ret.op = "search" /\ ret.ok /\ ret.limit >= 1
    /\ Len(ret.result) < ret.limit
    /\ Cardinality({i \in 1..Len(table) : /\ table[i].knowledge_base_id = ret.kb
                                           /\ table[i].position \in DOMAIN index}) >= ret.limit
    /\ Cardinality(DOMAIN index) >= ret.limit

\* C10: augment_query returns the query itself when knowledge_base_ids is
\* empty, without any call to the provider or the store, and also when the
\* search over a non-empty list finds nothing.
C10_AugmentIdentity ==
    ret.op = "augment_query" =>
        /\ ret.nkbs = 0 => /\ ret.ok /\ ret.text = Plain(ret.query)
                           /\ ret.embeds = 0 /\ ret.searches = 0
        /\ (ret.nkbs > 0 /\ ret.ok /\ ret.found = 0)
              => /\ ret.text = Plain(ret.query)
                 /\ ret.embeds = 1 /\ ret.searches = ret.nkbs

\* C10 witness: a query over no knowledge base came back unchanged from a
\* store that holds chunks and vectors.
C10_Witness ==
    /\ ret.op = "augment_query" /\ ret.nkbs = 0 /\ ret.text = Plain(ret.query)
    /\ table # <<>> /\ DOMAIN index # {}

\* C11: FixedSize coverage. The token ranges of the chunks of a fixed-size
\* run, in order, start at token 0, leave no gap (each starts at or before
\* the end of the one before) and, when the run returns its chunks, end at
\* token n, so that the non-overlapping portions of the chunks, concatenated,
\* are the whole token stream and their text the whole document; every chunk
\* holds the text of the tokens of its range and no chunk has more than
\* chunk_size tokens.
C11_FixedSizeCoverage ==
    FixedRun =>
        /\ \A i \in 1..Len(ck.chunks) :
              /\ ck.chunks[i].tokens <= ck.chunk_size
              /\ ck.chunks[i].tokens = RangeEnd(ck.chunks, i) - RangeStart(ck.chunks, i)
              /\ ck.chunks[i].content
                   = decode(SubSeq(ck.tokens, RangeStart(ck.chunks, i) + 1,
                                   RangeEnd(ck.chunks, i))).text
              /\ i = 1 => RangeStart(ck.chunks, i) = 0
              /\ i > 1 => RangeStart(ck.chunks, i) <= RangeEnd(ck.chunks, i - 1)
        /\ ck.pc = "done" =>
              /\ RebuildTokens(ck.chunks, ck.tokens, 1) = ck.tokens
              /\ Rebuild(ck.chunks, ck.tokens, 1) = ck.text
              /\ ck.chunks = <<>> <=> ck.text = <<>>
              /\ ck.chunks # <<>> => RangeEnd(ck.chunks, Len(ck.chunks)) = Len(ck.tokens)

\* A finished run of at least three overlapping windows, the last one
\* partial and holding a token of more than one byte.
C11_Witness ==
    /\ FixedDone
    /\ Len(ck.chunks) >= 3
    /\ ck.overlap_tokens > 0
    /\ ck.chunks[Len(ck.chunks)].tokens < ck.chunk_size
    /\ Len(ck.chunks[Len(ck.chunks)].content) > ck.chunks[Len(ck.chunks)].tokens

\* C12: a FixedSize run always stops. Whatever the token stream, chunk_size
\* and overlap_percent, a run that has entered its loop eventually returns:
\* an error when a window does not decode, its chunks otherwise, the last
\* chunk being the window that ends at the end of the token stream.
C12_FixedSizeStops ==
    (FixedRun /\ ck.pc = "loop")
      ~> (\/ FixedRun /\ ck.pc = "failed"
          \/ /\ FixedDone
             /\ ck.chunks # <<>> => RangeEnd(ck.chunks, Len(ck.chunks)) = Len(ck.tokens))

\* C15: Hierarchical integrity. In the result of a Hierarchical run every
\* chunk with a parent_chunk_id names the id of exactly one chunk of the same
\* result, which has no parent_chunk_id itself; and a parent of at most
\* child_chunk_size tokens has no children.
C15_HierarchicalIntegrity ==
    HierDone =>
        /\ \A i \in 1..Len(ck.all_chunks) :
              ~IsParent(ck.all_chunks[i]) =>
                  /\ Cardinality({j \in 1..Len(ck.all_chunks) :
                                    Some(ck.all_chunks[j].id)
                                      = ck.all_chunks[i].parent_chunk_id}) = 1
                  /\ \A j \in 1..Len(ck.all_chunks) :
                        Some(ck.all_chunks[j].id) = ck.all_chunks[i].parent_chunk_id
                            => IsParent(ck.all_chunks[j])
        /\ \A j \in 1..Len(ck.all_chunks) :
              (IsParent(ck.all_chunks[j]) /\ ck.all_chunks[j].tokens <= ck.child_size)
                  => ChildrenOf(ck.all_chunks, ck.all_chunks[j]) = <<>>

\* C20: Hierarchical output order. The result is each parent, in document
\* order, followed by its own children in order; the position fields are
\* 0, 1, 2, ... in output order, so that a child's position lies between its
\* parent's and the next parent's.
C20_HierarchicalOrder ==
    HierDone =>
        /\ \A i \in 1..Len(ck.all_chunks) :
              /\ ck.all_chunks[i].position = i - 1
              /\ ~IsParent(ck.all_chunks[i]) =>
                    /\ ParentBefore(ck.all_chunks, i) > 0
                    /\ Some(ck.all_chunks[ParentBefore(ck.all_chunks, i)].id)
                         = ck.all_chunks[i].parent_chunk_id
              /\ (IsParent(ck.all_chunks[i]) /\ ChildrenOf(ck.all_chunks, ck.all_chunks[i]) # <<>>)
                    => ContentsOf(ChildrenOf(ck.all_chunks, ck.all_chunks[i]))
                         = ck.all_chunks[i].content
        /\ ContentsOf(SelectSeq(ck.all_chunks, IsParent)) = ck.text

\* A result in which two parents have two children or more each.
C20_Witness ==
    /\ HierDone
    /\ \E i, j \in 1..Len(ck.all_chunks) :
          /\ i < j
          /\ IsParent(ck.all_chunks[i]) /\ IsParent(ck.all_chunks[j])
          /\ Len(ChildrenOf(ck.all_chunks, ck.all_chunks[i])) >= 2
          /\ Len(ChildrenOf(ck.all_chunks, ck.all_chunks[j])) >= 2

\* C16: StructureAware preservation. With the preserve flags at their
\* defaults, every fenced code block and every table of the input stands,
\* unchanged and unsplit, in exactly one chunk of the result, and none of its
\* characters stands anywhere else.
C16_StructuresPreserved ==
    (StructureDone /\ ck.preserve_code_blocks /\ ck.preserve_tables) =>
        /\ \A b \in CodeBlocksOf(ck.text) : Unsplit(ck.chunks, ck.text, b)
        /\ \A t \in DocumentTables(ck.text) : Unsplit(ck.chunks, ck.text, t)

\* C17: StructureAware with preserve_tables set. Every table that lies
\* outside the fenced code blocks is a chunk of its own whose content is
\* exactly the table, whether it stands before the first code block, between
\* two, or behind the last.
C17_TablesExtracted ==
    (StructureDone /\ ck.preserve_tables) =>
        \A t \in TablesOf(ck.text) :
            \E c \in 1..Len(ck.chunks) : ck.chunks[c].content = PlacesOf(ck.text, t)

\* C19: FixedSize stride. With overlap_tokens =
\* floor(chunk_size x overlap_percent), every window after the first starts
\* exactly chunk_size - overlap_tokens tokens after the start of the window
\* before it, so that consecutive chunks share exactly overlap_tokens
\* tokens; the 250-token document with chunk_size 100 and overlap 0.2 yields
\* exactly the ranges [0,100), [80,180), [160,250).
C19_FixedSizeStride ==
    FixedRun =>
        LET overlap_tokens == FloorOverlap(ck.chunk_size, ck.overlap_percent)
        IN /\ \A i \in 2..Len(ck.chunks) :
                 /\ RangeStart(ck.chunks, i) - RangeStart(ck.chunks, i - 1)
                      = ck.chunk_size - overlap_tokens
                 /\ RangeEnd(ck.chunks, i - 1) - RangeStart(ck.chunks, i) = overlap_tokens
           /\ (IsScenario2 /\ ck.pc = "done")
                 => TokenRanges(ck.chunks) = <<<<0, 100>>, <<80, 180>>, <<160, 250>>>>

\* C21: Hierarchical depth limit. Children are produced only while
\* max_depth > 1: a run with max_depth <= 1 never enters the child loop and
\* no chunk of its result has a parent_chunk_id, whatever the sizes of its
\* parents; its result is its parents in order.
C21_HierarchicalDepthLimit ==
    (ck.strategy = "hierarchical" /\ ck.max_depth <= 1) =>
        /\ ck.pc # "children"
        /\ \A i \in 1..Len(ck.all_chunks) : IsParent(ck.all_chunks[i])
        /\ ck.pc = "done" =>
              /\ Len(ck.all_chunks) = Len(ck.parent_chunks)
              /\ \A i \in 1..Len(ck.all_chunks) :
                    ck.all_chunks[i].id = ck.parent_chunks[i].id

\* A finished run with max_depth <= 1 over several parents, one of them
\* longer than child_chunk_size.
C21_Witness ==
    /\ HierDone
    /\ ck.max_depth <= 1
    /\ Len(ck.all_chunks) >= 2
    /\ \E i \in 1..Len(ck.all_chunks) : ck.all_chunks[i].tokens > ck.child_size

\* C22 as the spec has it: Hierarchical scenario. The 1000-token document
\* chunked with parent_chunk_size 300, child_chunk_size 100 and max_depth 2
\* yields 3 or 4 parents, and each of these parents has children, of at most
\* 100 tokens each, whose token counts sum to the parent's token count.
C22_HierarchicalScenario ==
    (HierDone /\ IsScenario3) =>
        /\ Len(ParentsOf(ck.all_chunks)) \in {3, 4}
        /\ \A i \in 1..Len(ck.all_chunks) :
              IsParent(ck.all_chunks[i]) =>
                  LET children == ChildrenOf(ck.all_chunks, ck.all_chunks[i])
                  IN /\ children # <<>>
                     /\ SumChunkTokens(children) = ck.all_chunks[i].tokens
                     /\ \A k \in 1..Len(children) : children[k].tokens <= 100

\* C22 amended: the scenario, when the run returns its chunks, yields 3 or 4
\* parents; a parent has children exactly when its text, encoded anew, has
\* more than 100 tokens; the children have at most 100 tokens each and their
\* token counts sum to the token count of the parent's text encoded anew,
\* which is the parent's token count wherever encoding the parent's text
\* gives the parent's tokens back; then a parent of more than 100 tokens has
\* children and a parent of at most 100 tokens (the fourth, tokens 900 to
\* 1000) has none.
C22_HierarchicalScenarioEncodedAnew ==
    (HierDone /\ IsScenario3) =>
        /\ Len(ParentsOf(ck.all_chunks)) \in {3, 4}
        /\ \A i \in 1..Len(ck.all_chunks) :
              IsParent(ck.all_chunks[i]) =>
                  LET parent == ck.all_chunks[i]
                      children == ChildrenOf(ck.all_chunks, parent)
                      anew == encode(parent.content)
                      nth == Cardinality({j \in 1..i : IsParent(ck.all_chunks[j])})
                      own == SubSeq(ck.tokens, (nth - 1) * ck.parent_size + 1,
                                    Min(nth * ck.parent_size, Len(ck.tokens)))
                  IN /\ children # <<>> <=> Len(anew) > 100
                     /\ children # <<>> =>
                           /\ SumChunkTokens(children) = Len(anew)
                           /\ \A k \in 1..Len(children) : children[k].tokens <= 100
                     /\ anew = own =>
                           /\ Len(anew) = parent.tokens
                           /\ children # <<>> <=> parent.tokens > 100

\* The scenario has returned four parents: one of 300 tokens whose text has
\* 301 tokens when encoded anew and four children that sum to 301, and the
\* fourth, of 100 tokens before and after, without children.
C22_Witness ==
    /\ HierDone /\ IsScenario3
    /\ Len(ParentsOf(ck.all_chunks)) = 4
    /\ \E i \in 1..Len(ck.all_chunks) :
          /\ IsParent(ck.all_chunks[i])
          /\ ck.all_chunks[i].tokens = 300
          /\ count(ck.all_chunks[i].content) = 301
          /\ Len(ChildrenOf(ck.all_chunks, ck.all_chunks[i])) = 4
          /\ SumChunkTokens(ChildrenOf(ck.all_chunks, ck.all_chunks[i])) = 301
    /\ \E j \in 1..Len(ck.all_chunks) :
          /\ IsParent(ck.all_chunks[j])
          /\ ck.all_chunks[j].tokens = 100
          /\ count(ck.all_chunks[j].content) = 100
          /\ ChildrenOf(ck.all_chunks, ck.all_chunks[j]) = <<>>

\* C23: with three chunks stored in one knowledge base (their rows in the
\* table, their vectors in the index) at distinct positions and with pairwise
\* orthogonal embeddings, a search of that knowledge base for at least one
\* result, with a query vector identical to the embedding of one of them,
\* chunk A, that returns Ok returns chunk A first, with score 1.
C23_OrthogonalSearch ==
    (ret.op = "search" /\ ret.ok /\ ret.limit >= 1
        /\ ThreeOrthogonal(table, ret.kb)) =>
        \A a \in 1..Len(table) :
            (table[a].knowledge_base_id = ret.kb /\ EmbeddingOf(table[a].content) = ret.qvec)
                => /\ ret.result # <<>>
                   /\ ret.result[1].chunk = ChunkOfRow(table[a])
                   /\ ret.result[1].score = ScoreScale

\* C24: get_stats(kb) returns total_chunks = the number of stored rows of kb,
\* total_tokens = the sum of their token counts, avg_tokens_per_chunk =
\* floor(total_tokens / total_chunks), and 0 when kb has no chunks, and
\* num_documents = the number of distinct document ids among those rows; a
\* get_stats(kb) that follows delete_chunks_by_kb(kb) returns 0 four times.
C24_StatsMatchRows ==
    /\ [](ret.op = "get_stats" /\ ret.ok =>
            LET rows == {i \in 1..Len(table) : table[i].knowledge_base_id = ret.kb}
                n == Cardinality(rows)
                st == ret.stats
            IN /\ st.total_chunks = n
               /\ st.total_tokens = SumTokensOfRows(table, ret.kb)
               /\ n = 0 => st.avg_tokens_per_chunk = 0
               /\ n > 0 => /\ st.avg_tokens_per_chunk * n <= st.total_tokens
                           /\ st.total_tokens < (st.avg_tokens_per_chunk + 1) * n
               /\ st.num_documents = Cardinality({table[i].document_id : i \in rows}))
    /\ [][(/\ ret.op = "delete_chunks_by_kb" /\ ret.ok
           /\ ret'.op = "get_stats" /\ ret'.ok /\ ret'.kb = ret.kb)
              => ret'.stats = KnowledgeBaseStats(0, 0, 0, 0)]_vars

\* Statistics of a knowledge base holding three chunks of two documents
\* whose token counts do not divide evenly.
C24_Witness ==
    /\ ret.op = "get_stats" /\ ret.ok
    /\ ret.stats.total_chunks = 3
    /\ ret.stats.num_documents = 2
    /\ ret.stats.total_tokens = 16
    /\ ret.stats.avg_tokens_per_chunk = 5

\* C25: the ANN insert is outside the relational transaction and nothing
\* compensates a failure. A failed add_chunks_batch leaves the table as it
\* was before the call while the vectors of the chunks it had got through
\* stay in the index; a failed add_chunk has either stored nothing (the
\* INSERT failed) or left its row committed with no vector added (the ANN
\* insert failed); no call takes a vector out of the index.
C25_StoresDiverge ==
    [][/\ (ret'.op = "add_chunks_batch" /\ ~ret'.ok) =>
             /\ table' = table
             /\ \E n \in 0..Len(ret'.rows) : index' = WithVectorsOf(index, ret'.rows, n)
       /\ (ret'.op = "add_chunk" /\ ~ret'.ok) =>
             /\ index' = index
             /\ \/ table' = table
                \/ table' = table \o ret'.rows
       /\ KeepsVectors(index, index')]_vars

\* A failed batch of two chunks has left the vector of its first chunk in
\* the index with no row at that position, in a store that also holds a row
\* whose position has no vector.
C25_Witness ==
    /\ ret.op = "add_chunks_batch" /\ ~ret.ok /\ Len(ret.rows) = 2
    /\ \E k \in DOMAIN index :
          /\ k = ret.rows[1].position
          /\ index[k] = EmbeddingOf(ret.rows[1].content)
          /\ \A i \in 1..Len(table) : table[i].position # k
    /\ \E i \in 1..Len(table) : table[i].position \notin DOMAIN index

\* C27: score attribution. In every store state reached by add_chunk,
\* add_chunks_batch and delete_chunks_by_kb calls, each result of
\* VectorStore.search(kb, q, limit) carries the score 1 - distance(q, e),
\* where e is the embedding stored for the returned chunk itself, never a
\* score computed from the vector of another chunk.
C27_ScoreOfOwnVector ==
    (ret.op = "search" /\ ret.ok) =>
        \A i \in 1..Len(ret.result) :
            ret.result[i].score
                = ScoreScale - CosineDistance(ret.qvec,
                                              EmbeddingOf(ret.result[i].chunk.content))

\* C28: deleted content is never returned by search. While a knowledge base
\* has no chunks (from delete_chunks_by_kb(id) until chunks are added to id
\* again), VectorStore.search(id, q, limit) and RAGService.search(q, [id],
\* limit) return no results, whatever the query and whatever vectors are
\* still in the ANN index; in particular a search of id that directly
\* follows the delete returns nothing.
C28_DeletedNotReturned ==
    /\ []((/\ ret.op \in {"search", "rag_search"} /\ ret.ok
           /\ ret.kb \in KBs
           /\ RowsOfKb(table, ret.kb) = <<>>)
              => ret.result = <<>>)
    /\ [][(/\ ret.op = "delete_chunks_by_kb" /\ ret.ok
           /\ ret'.op \in {"search", "rag_search"} /\ ret'.ok
           /\ ret'.kb = ret.kb)
              => ret'.result = <<>>]_vars

\* A RAG search for at least one result of a knowledge base without rows has
\* returned nothing, while the index still holds two vectors, one of them
\* under a position at which no row is left, and the other knowledge base
\* has a row.
C28_Witness ==
    /\ ret.op = "rag_search" /\ ret.ok /\ ret.kb \in KBs /\ ret.limit >= 1
    /\ RowsOfKb(table, ret.kb) = <<>>
    /\ ret.result = <<>>
    /\ Cardinality(DOMAIN index) = 2
    /\ \E k \in DOMAIN index : \A i \in 1..Len(table) : table[i].position # k
    /\ table # <<>>

\* C29 as the spec has it: StructureAware emits exactly one chunk per
\* extracted segment. Text segments are never adjacent, each text run
\* between or around the preserved spans becomes one chunk with that run's
\* content whatever its token count, the number of chunks equals the number
\* of segments, the result is the same for every max_chunk_size, and a
\* document without code blocks or tables becomes a single chunk holding the
\* whole document.
C29_OneChunkPerSegment ==
    StructureDone =>
        /\ OneChunkPerSegment
        /\ NoStructures(ck.text) =>
              /\ Len(ck.chunks) = 1
              /\ ck.chunks[1].content = ck.text

\* C29 amended: as above, but it is a document that is not empty and has no
\* code blocks or tables that becomes a single chunk holding the whole
\* document; the empty document has no segment and yields no chunk.
C29_OneChunkPerSegmentNonEmpty ==
    StructureDone =>
        /\ OneChunkPerSegment
        /\ (NoStructures(ck.text) /\ ck.text # <<>>) =>
              /\ Len(ck.chunks) = 1
              /\ ck.chunks[1].content = ck.text
        /\ ck.text = <<>> => ck.chunks = <<>>

\* A code block, the newline behind it and a table on the next line: three
\* chunks, the newline a text chunk of its own with more tokens than
\* max_chunk_size allows.
C29_Witness ==
    /\ StructureDone
    /\ Len(ck.chunks) = 3
    /\ ck.segments[1].segment_type = "CodeBlock"
    /\ ck.segments[2].segment_type = "Text"
    /\ ck.segments[3].segment_type = "Table"
    /\ BytesOf(ck.chunks[2].content) = <<"\n">>
    /\ ck.chunks[2].tokens > ck.max_size

\* C30: a Hierarchical chunking run terminates for every finite document and
\* every parent_chunk_size and child_chunk_size the configuration accepts
\* (including 0): every pass of the parent partition loop and every pass of a
\* child partition loop that does not return an error advances its position
\* by at least one token, so each loop reaches the end of its token stream.
C30_HierarchicalAdvances ==
    [][/\ (ck.strategy = "hierarchical" /\ ck.pc = "parents"
             /\ ck.position < Len(ck.tokens) /\ ck'.pc # "failed")
          => ck'.position > ck.position
       /\ (ck.strategy = "hierarchical" /\ ck.pc = "children"
             /\ ck.child.position < Len(ck.child.tokens) /\ ck'.pc # "failed")
          => ck'.child.position > ck.child.position]_vars

====
